---- MODULE Spec2Model ----
(***************************************************************************)
(* Verification model of the signature stack of K12AndKeyUtil.h            *)
(* (KangarooTwelve, GF(2^127-1) and GF(p^2) arithmetic, FourQ point        *)
(* algebra, scalar arithmetic modulo the group order, encode/decode and    *)
(* the SchnorrQ sign/verify protocol).                                     *)
(*                                                                         *)
(* Representation.  TLC integers are 32 bits wide, so every C integer      *)
(* wider than that is modelled by its little-endian bytes: an unsigned     *)
(* long long is a sequence of 8 bytes, an uint8_t buffer a sequence of     *)
(* bytes.  C arrays of words (felm_t, unsigned long long[4], ...) are      *)
(* sequences of words; C index i is TLA+ index i+1.  Every operation is    *)
(* computed on these bytes with the width of the C operation (carries,     *)
(* borrows and truncations included).                                      *)
(***************************************************************************)
EXTENDS Integers, Sequences, FiniteSets, TLC

\* Call(f, a): the function of the program named f applied to the tuple a of its
\* arguments.  The functions call each other through Call, so that each one is
\* one case of a single recursive operator (defined after them).
RECURSIVE Call(_, _)

----------------------------------------------------------------------------
(* Bytes and 64-bit words *)

RECURSIVE BitXor(_, _, _)
BitXor(a, b, n) == IF n = 0 THEN 0 ELSE ((a + b) % 2) + 2 * BitXor(a \div 2, b \div 2, n - 1)

RECURSIVE BitAnd(_, _, _)
BitAnd(a, b, n) == IF n = 0 THEN 0 ELSE ((a % 2) * (b % 2)) + 2 * BitAnd(a \div 2, b \div 2, n - 1)

\* ^ and & on two bytes, tabulated once over the pair (a, b) at index 256 a + b + 1
XorTab == SubSeq([k \in 1..65536 |-> BitXor((k - 1) \div 256, (k - 1) % 256, 8)], 1, 65536)
AndTab == SubSeq([k \in 1..65536 |-> BitAnd((k - 1) \div 256, (k - 1) % 256, 8)], 1, 65536)

Xor8(a, b) == XorTab[256 * a + b + 1]
And8(a, b) == AndTab[256 * a + b + 1]

\* The n values f[1], ..., f[n] as a tuple.  TLC evaluates a function constructor
\* anew at each application; the tuple holds the values, computed once.
Tup(f, n) == SubSeq(f, 1, n)

\* y, once x has its value.  TLC evaluates the argument of an operator when the
\* operator first uses it; a loop that hands an unevaluated accumulator on nests
\* the evaluations of all its iterations.
Then(x, y) == IF x = x THEN y ELSE y

\* byte sequences of equal length: a ^ b, a & b, ~a, a | b
XorBytes(a, b) == Tup([i \in 1..Len(a) |-> Xor8(a[i], b[i])], Len(a))
AndBytes(a, b) == Tup([i \in 1..Len(a) |-> And8(a[i], b[i])], Len(a))
NotBytes(a) == Tup([i \in 1..Len(a) |-> 255 - a[i]], Len(a))
OrBytes(a, b) == Tup([i \in 1..Len(a) |-> a[i] + b[i] - And8(a[i], b[i])], Len(a))

Zeros(n) == Tup([i \in 1..n |-> 0], n)
IsZero(a) == \A i \in 1..Len(a) : a[i] = 0

\* the unsigned long long whose value is the small number n (n < 2^31)
W64(n) == Tup([i \in 1..8 |-> IF i <= 4 THEN (n \div (256 ^ (i - 1))) % 256 ELSE 0], 8)

\* a + b + c on byte sequences of equal length: [v |-> sum mod 256^n, c |-> carry out]
RECURSIVE AddBytes(_, _, _, _, _)
AddBytes(a, b, c, i, out) ==
    IF i > Len(a) THEN [v |-> out, c |-> c]
    ELSE LET s == a[i] + b[i] + c
         IN AddBytes(a, b, s \div 256, i + 1, Append(out, s % 256))

\* a - b - c on byte sequences of equal length: [v |-> difference mod 256^n, c |-> borrow out]
RECURSIVE SubBytes(_, _, _, _, _)
SubBytes(a, b, c, i, out) ==
    IF i > Len(a) THEN [v |-> out, c |-> c]
    ELSE LET s == a[i] - b[i] - c
         IN SubBytes(a, b, IF s < 0 THEN 1 ELSE 0, i + 1, Append(out, (s + 256) % 256))

\* _addcarry_u64(c_in, a, b, &out): out is .v, the returned carry is .c
_addcarry_u64(c, a, b) ==
    LET s1 == a[1] + b[1] + c
        s2 == a[2] + b[2] + (s1 \div 256)
        s3 == a[3] + b[3] + (s2 \div 256)
        s4 == a[4] + b[4] + (s3 \div 256)
        s5 == a[5] + b[5] + (s4 \div 256)
        s6 == a[6] + b[6] + (s5 \div 256)
        s7 == a[7] + b[7] + (s6 \div 256)
        s8 == a[8] + b[8] + (s7 \div 256)
    IN [v |-> <<s1 % 256, s2 % 256, s3 % 256, s4 % 256, s5 % 256, s6 % 256, s7 % 256, s8 % 256>>,
        c |-> s8 \div 256]

\* _subborrow_u64(b_in, a, b, &out): out is .v, the returned borrow is .c
_subborrow_u64(c, a, b) ==
    LET s1 == 256 + a[1] - b[1] - c
        s2 == 255 + a[2] - b[2] + (s1 \div 256)
        s3 == 255 + a[3] - b[3] + (s2 \div 256)
        s4 == 255 + a[4] - b[4] + (s3 \div 256)
        s5 == 255 + a[5] - b[5] + (s4 \div 256)
        s6 == 255 + a[6] - b[6] + (s5 \div 256)
        s7 == 255 + a[7] - b[7] + (s6 \div 256)
        s8 == 255 + a[8] - b[8] + (s7 \div 256)
    IN [v |-> <<s1 % 256, s2 % 256, s3 % 256, s4 % 256, s5 % 256, s6 % 256, s7 % 256, s8 % 256>>,
        c |-> 1 - (s8 \div 256)]

\* column k of the schoolbook product of two byte sequences
MulCol(a, b, k) ==
    LET n == Len(a)
        m == Len(b)
        lo == IF k > m - 1 THEN k - (m - 1) ELSE 0
        hi == IF k > n - 1 THEN n - 1 ELSE k
        F[j \in (lo - 1)..hi] == IF j < lo THEN 0 ELSE F[j - 1] + a[j + 1] * b[k - j + 1]
    IN F[hi]

RECURSIVE CarryCols(_, _, _, _)
CarryCols(cols, k, c, out) ==
    IF k > Len(cols) THEN out
    ELSE LET v == cols[k] + c
         IN CarryCols(cols, k + 1, v \div 256, Append(out, v % 256))

\* the full product a * b of two byte sequences, Len(a) + Len(b) bytes
MulBytes(a, b) ==
    CarryCols([k \in 1..(Len(a) + Len(b)) |-> IF k = Len(a) + Len(b) THEN 0 ELSE MulCol(a, b, k - 1)], 1, 0, <<>>)

\* _umul128(a, b, &hi): the low word is .lo, the high word .hi (the columns of the
\* schoolbook product of the bytes, then the carries)
_umul128(a, b) ==
    LET p1 == a[1] * b[1]
        p2 == a[1] * b[2] + a[2] * b[1] + (p1 \div 256)
        p3 == a[1] * b[3] + a[2] * b[2] + a[3] * b[1] + (p2 \div 256)
        p4 == a[1] * b[4] + a[2] * b[3] + a[3] * b[2] + a[4] * b[1] + (p3 \div 256)
        p5 == a[1] * b[5] + a[2] * b[4] + a[3] * b[3] + a[4] * b[2] + a[5] * b[1] + (p4 \div 256)
        p6 == a[1] * b[6] + a[2] * b[5] + a[3] * b[4] + a[4] * b[3] + a[5] * b[2] + a[6] * b[1] + (p5 \div 256)
        p7 == a[1] * b[7] + a[2] * b[6] + a[3] * b[5] + a[4] * b[4] + a[5] * b[3] + a[6] * b[2] + a[7] * b[1] + (p6 \div 256)
        p8 == a[1] * b[8] + a[2] * b[7] + a[3] * b[6] + a[4] * b[5] + a[5] * b[4] + a[6] * b[3] + a[7] * b[2] + a[8] * b[1] + (p7 \div 256)
        p9 == a[2] * b[8] + a[3] * b[7] + a[4] * b[6] + a[5] * b[5] + a[6] * b[4] + a[7] * b[3] + a[8] * b[2] + (p8 \div 256)
        p10 == a[3] * b[8] + a[4] * b[7] + a[5] * b[6] + a[6] * b[5] + a[7] * b[4] + a[8] * b[3] + (p9 \div 256)
        p11 == a[4] * b[8] + a[5] * b[7] + a[6] * b[6] + a[7] * b[5] + a[8] * b[4] + (p10 \div 256)
        p12 == a[5] * b[8] + a[6] * b[7] + a[7] * b[6] + a[8] * b[5] + (p11 \div 256)
        p13 == a[6] * b[8] + a[7] * b[7] + a[8] * b[6] + (p12 \div 256)
        p14 == a[7] * b[8] + a[8] * b[7] + (p13 \div 256)
        p15 == a[8] * b[8] + (p14 \div 256)
        p16 == p15 \div 256
    IN [lo |-> <<p1 % 256, p2 % 256, p3 % 256, p4 % 256, p5 % 256, p6 % 256, p7 % 256, p8 % 256>>,
        hi |-> <<p9 % 256, p10 % 256, p11 % 256, p12 % 256, p13 % 256, p14 % 256, p15 % 256, p16 % 256>>]

\* a * b truncated to 64 bits (C's * on unsigned long long)
Mul64(a, b) == Call("_umul128", <<a, b>>).lo
\* a + b and a - b truncated to 64 bits (C's + and - on unsigned long long)
Add64(a, b) == Call("_addcarry_u64", <<0, a, b>>).v
Sub64(a, b) == Call("_subborrow_u64", <<0, a, b>>).v

\* a byte sequence shifted right / left by s bits (0 <= s < 8 * Len), zero filled, length kept
ShrBytes(a, s) ==
    LET q == s \div 8
        r == s % 8
        n == Len(a)
        at(i) == IF i >= 1 /\ i <= n THEN a[i] ELSE 0
    IN Tup([i \in 1..n |-> (at(i + q) \div (2 ^ r)) + ((at(i + q + 1) * (2 ^ (8 - r))) % 256)], n)
ShlBytes(a, s) ==
    LET q == s \div 8
        r == s % 8
        n == Len(a)
        at(i) == IF i >= 1 /\ i <= n THEN a[i] ELSE 0
    IN Tup([i \in 1..n |-> ((at(i - q) * (2 ^ r)) % 256) + (at(i - q - 1) \div (2 ^ (8 - r)))], n)

\* __shiftright128(LowPart, HighPart, Shift): the low word of (High:Low) >> Shift, 0 < Shift < 64
__shiftright128(LowPart, HighPart, Shift) ==
    LET x == LowPart \o HighPart
        q == Shift \div 8
        d == 2 ^ (Shift % 8)
        m == 2 ^ (8 - (Shift % 8))
    IN <<(x[q + 1] \div d) + ((x[q + 2] * m) % 256),
         (x[q + 2] \div d) + ((x[q + 3] * m) % 256),
         (x[q + 3] \div d) + ((x[q + 4] * m) % 256),
         (x[q + 4] \div d) + ((x[q + 5] * m) % 256),
         (x[q + 5] \div d) + ((x[q + 6] * m) % 256),
         (x[q + 6] \div d) + ((x[q + 7] * m) % 256),
         (x[q + 7] \div d) + ((x[q + 8] * m) % 256),
         (x[q + 8] \div d) + ((x[q + 9] * m) % 256)>>
\* __shiftleft128(LowPart, HighPart, Shift): the high word of (High:Low) << Shift, 0 < Shift < 64
__shiftleft128(LowPart, HighPart, Shift) ==
    LET x == LowPart \o HighPart
        q == Shift \div 8
        d == 2 ^ (Shift % 8)
        m == 2 ^ (8 - (Shift % 8))
    IN <<((x[9 - q] * d) % 256) + (x[8 - q] \div m),
         ((x[10 - q] * d) % 256) + (x[9 - q] \div m),
         ((x[11 - q] * d) % 256) + (x[10 - q] \div m),
         ((x[12 - q] * d) % 256) + (x[11 - q] \div m),
         ((x[13 - q] * d) % 256) + (x[12 - q] \div m),
         ((x[14 - q] * d) % 256) + (x[13 - q] \div m),
         ((x[15 - q] * d) % 256) + (x[14 - q] \div m),
         ((x[16 - q] * d) % 256) + (x[15 - q] \div m)>>

\* ROL64(a, offset), 0 < offset < 64
ROL64(a, offset) ==
    LET q == offset \div 8
        r == offset % 8
    IN Tup([i \in 1..8 |-> ((a[((i - 1 - q + 8) % 8) + 1] * (2 ^ r)) % 256)
                           + (a[((i - 2 - q + 16) % 8) + 1] \div (2 ^ (8 - r)))], 8)

\* bit b (0 = least significant) of a byte sequence
BitOf(a, b) == (a[(b \div 8) + 1] \div (2 ^ (b % 8))) % 2

----------------------------------------------------------------------------
(* KeccakP1600_Permute_12rounds *)

\* KeccakF1600RoundConstant0..10 and the constant of the twelfth round
KeccakRoundConstants ==
    << <<139,128,0,128,0,0,0,0>>, <<139,0,0,0,0,0,0,128>>, <<137,128,0,0,0,0,0,128>>,
       <<3,128,0,0,0,0,0,128>>, <<2,128,0,0,0,0,0,128>>, <<128,0,0,0,0,0,0,128>>,
       <<10,128,0,0,0,0,0,0>>, <<10,0,0,128,0,0,0,128>>, <<129,128,0,128,0,0,0,128>>,
       <<128,128,0,0,0,0,0,128>>, <<1,0,0,128,0,0,0,0>>, <<8,128,0,128,0,0,0,128>> >>

\* the lane (index into state[0..24]) that feeds B of output lane j, and its rotation:
\* rows b, g, k, m, s of thetaRhoPiChiIotaPrepareTheta
KeccakSrc == <<0, 6, 12, 18, 24,  3, 9, 10, 16, 22,  1, 7, 13, 19, 20,  4, 5, 11, 17, 23,  2, 8, 14, 15, 21>>
KeccakRot == <<0, 44, 43, 21, 14,  28, 20, 3, 45, 61,  1, 6, 25, 8, 18,  27, 36, 10, 15, 56,  62, 55, 39, 41, 2>>

\* one round on the 25 lanes A (lane j of the C state is A[j + 1]), rc its round constant
KeccakRound(A, rc) ==
    LET C == Tup([x \in 1..5 |-> XorBytes(XorBytes(XorBytes(XorBytes(A[x], A[x + 5]), A[x + 10]), A[x + 15]), A[x + 20])], 5)
        D == Tup([x \in 1..5 |-> XorBytes(C[((x + 3) % 5) + 1], ROL64(C[(x % 5) + 1], 1))], 5)
        B == Tup([j \in 1..25 |->
                     LET s == KeccakSrc[j]
                         t == XorBytes(A[s + 1], D[(s % 5) + 1])
                     IN IF KeccakRot[j] = 0 THEN t ELSE ROL64(t, KeccakRot[j])], 25)
    IN Tup([j \in 1..25 |->
               LET y == 5 * ((j - 1) \div 5)
                   x == (j - 1) % 5
                   e == XorBytes(B[j], AndBytes(NotBytes(B[y + ((x + 1) % 5) + 1]), B[y + ((x + 2) % 5) + 1]))
               IN IF j = 1 THEN XorBytes(e, rc) ELSE e], 25)

\* rounds lo..hi of the twelve, in order
RECURSIVE rounds12(_, _, _)
rounds12(A, lo, hi) ==
    IF lo = hi THEN KeccakRound(A, KeccakRoundConstants[lo])
    ELSE LET mid == (lo + hi) \div 2
             E == rounds12(A, lo, mid)
         IN Then(E, rounds12(E, mid + 1, hi))

\* copyFromState / copyToState: 200 bytes <-> 25 lanes
copyFromState(state) == Tup([j \in 1..25 |-> SubSeq(state, 8 * j - 7, 8 * j)], 25)
copyToState(A) == Tup([i \in 1..200 |-> A[((i - 1) \div 8) + 1][((i - 1) % 8) + 1]], 200)

KeccakP1600_Permute_12rounds(state) ==
    LET A == copyFromState(state) IN Then(A, copyToState(rounds12(A, 1, 12)))

----------------------------------------------------------------------------
(* KangarooTwelve *)

K12_security == 128
K12_capacity == 2 * K12_security
K12_capacityInBytes == K12_capacity \div 8
K12_rateInBytes == (1600 - K12_capacity) \div 8
K12_chunkSize == 8192
K12_suffixLeaf == 11

\* KangarooTwelve_F after memset(.., 0, ..)
ZeroNode == [state |-> Zeros(200), byteIOIndex |-> 0]

\* state[at] ^= v (at is the C index)
XorAt(state, at, v) == [state EXCEPT ![at + 1] = Xor8(@, v)]

\* state[from .. from+n-1] ^= data[off .. off+n-1] (C indices)
XorInto(state, from, data, off, n) ==
    Tup([j \in 1..200 |-> IF j - 1 >= from /\ j - 1 < from + n
                          THEN Xor8(state[j], data[off + (j - 1 - from) + 1])
                          ELSE state[j]], 200)

\* KangarooTwelve_F_Absorb from input position i on
RECURSIVE K12_AbsorbFrom(_, _, _, _)
K12_AbsorbFrom(instance, data, dataByteLen, i) ==
    IF i >= dataByteLen THEN instance
    ELSE IF instance.byteIOIndex = 0 /\ dataByteLen >= i + K12_rateInBytes
         THEN \* a whole block: xor 21 lanes, permute
              LET next == [state |-> Call("KeccakP1600_Permute_12rounds", <<XorInto(instance.state, 0, data, i, K12_rateInBytes)>>),
                           byteIOIndex |-> 0]
              IN Then(next, K12_AbsorbFrom(next, data, dataByteLen, i + K12_rateInBytes))
         ELSE LET partialBlock == IF (dataByteLen - i) + instance.byteIOIndex > K12_rateInBytes
                                  THEN K12_rateInBytes - instance.byteIOIndex
                                  ELSE dataByteLen - i
                  st == XorInto(instance.state, instance.byteIOIndex, data, i, partialBlock)
                  idx == instance.byteIOIndex + partialBlock
                  next == IF idx = K12_rateInBytes
                          THEN [state |-> Call("KeccakP1600_Permute_12rounds", <<st>>), byteIOIndex |-> 0]
                          ELSE [state |-> st, byteIOIndex |-> idx]
              IN Then(next, K12_AbsorbFrom(next, data, dataByteLen, i + partialBlock))

KangarooTwelve_F_Absorb(instance, data, dataByteLen) == K12_AbsorbFrom(instance, data, dataByteLen, 0)

\* The locals of one KangarooTwelve call.  input is the whole input buffer, pos the
\* number of bytes the pointer `input` has advanced, inputByteLen what is left.
\* Ghost fields record what the call did: suffixes (the domain-separation bytes
\* xored in, in order), cvs (the leaf digests absorbed into the final node, in
\* order), chunks (the input slices handed to leaf nodes) and encbuf.
K12_Enter(input, inputByteLen, outputByteLen) ==
    [input |-> input, pos |-> 0, inputByteLen |-> inputByteLen, outputByteLen |-> outputByteLen,
     len |-> 0, finalNode |-> ZeroNode, queueNode |-> [state |-> <<>>, byteIOIndex |-> 0],
     blockNumber |-> 0, queueAbsorbedLen |-> 0,
     suffixes |-> <<>>, cvs |-> <<>>, encbuf |-> <<>>]

\* lines 465-469: absorb the first chunk into the final node
K12_First(c) ==
    LET len == IF K12_chunkSize < c.inputByteLen THEN K12_chunkSize ELSE c.inputByteLen
    IN [c EXCEPT !.finalNode = Call("KangarooTwelve_F_Absorb", <<ZeroNode, c.input, len>>),
                 !.len = len, !.pos = len, !.inputByteLen = c.inputByteLen - len]

\* lines 472-483 and 536-546: close the first chunk of a tree (suffix 0x03, align to 8)
K12_CloseFirstChunk(c) ==
    LET st == XorAt(c.finalNode.state, c.finalNode.byteIOIndex, 3)
        idx == c.finalNode.byteIOIndex + 1
    IN [c EXCEPT !.blockNumber = 1,
                 !.finalNode = IF idx = K12_rateInBytes
                               THEN [state |-> Call("KeccakP1600_Permute_12rounds", <<st>>), byteIOIndex |-> 0]
                               ELSE [state |-> st, byteIOIndex |-> ((idx + 7) \div 8) * 8],
                 !.suffixes = Append(@, 3)]

\* lines 495-499, 518-522 and 572-575: pad the leaf, permute, absorb 32 bytes of it
K12_CloseLeaf(c, q) ==
    LET st == Call("KeccakP1600_Permute_12rounds",
                   <<XorAt(XorAt(q.state, q.byteIOIndex, K12_suffixLeaf), K12_rateInBytes - 1, 128)>>)
    IN [c EXCEPT !.blockNumber = c.blockNumber + 1,
                 !.queueNode = [state |-> st, byteIOIndex |-> K12_capacityInBytes],
                 !.finalNode = Call("KangarooTwelve_F_Absorb", <<c.finalNode, st, K12_capacityInBytes>>),
                 !.suffixes = Append(@, K12_suffixLeaf),
                 !.cvs = Append(@, SubSeq(st, 1, K12_capacityInBytes))]

\* lines 472-473: the locals the tree path sets before its loop
K12_TreeBegin(c) == [K12_CloseFirstChunk(c) EXCEPT !.queueAbsorbedLen = 0]

\* lines 487-504: one iteration of while (inputByteLen > 0)
K12_Chunk(c) ==
    LET len == IF c.inputByteLen < K12_chunkSize THEN c.inputByteLen ELSE K12_chunkSize
        q == Call("KangarooTwelve_F_Absorb", <<ZeroNode, SubSeq(c.input, c.pos + 1, c.pos + len), len>>)
        d == [c EXCEPT !.pos = c.pos + len, !.inputByteLen = c.inputByteLen - len, !.queueNode = q]
    IN IF len = K12_chunkSize THEN K12_CloseLeaf(d, q)
       ELSE [d EXCEPT !.queueAbsorbedLen = len]

\* lines 507-530: after the loop
K12_Tail(c) ==
    IF c.queueAbsorbedLen # 0
    THEN LET idx == c.queueNode.byteIOIndex + 1
             q == IF idx = K12_rateInBytes
                  THEN [state |-> Call("KeccakP1600_Permute_12rounds", <<c.queueNode.state>>), byteIOIndex |-> 0]
                  ELSE [state |-> c.queueNode.state, byteIOIndex |-> idx]
             d == [c EXCEPT !.queueNode = q, !.queueAbsorbedLen = c.queueAbsorbedLen + 1]
         IN IF d.queueAbsorbedLen = K12_chunkSize
            THEN [K12_CloseLeaf(d, q) EXCEPT !.queueAbsorbedLen = 0]
            ELSE d
    ELSE [c EXCEPT !.queueNode = [state |-> Zeros(200), byteIOIndex |-> 1], !.queueAbsorbedLen = 1]

\* lines 534-551: the input is exactly one chunk
K12_ExactChunk(c) ==
    [K12_CloseFirstChunk(c) EXCEPT !.queueNode = [state |-> Zeros(200), byteIOIndex |-> 1],
                                   !.queueAbsorbedLen = 1]

\* K12_Short with the suffix of the tree's final node in place of 0x07
K12_Short_TreeSuffix(c) ==
    LET idx == c.finalNode.byteIOIndex + 1
    IN [c EXCEPT !.blockNumber = 0,
                 !.finalNode = IF idx = K12_rateInBytes
                               THEN [state |-> XorAt(Call("KeccakP1600_Permute_12rounds", <<c.finalNode.state>>), 0, 6),
                                     byteIOIndex |-> idx]
                               ELSE [state |-> XorAt(c.finalNode.state, idx, 6), byteIOIndex |-> idx],
                 !.suffixes = Append(@, 6)]

\* lines 554-563: the input is shorter than one chunk
K12_Short(c) ==
    LET idx == c.finalNode.byteIOIndex + 1
    IN [c EXCEPT !.blockNumber = 0,
                 !.finalNode = IF idx = K12_rateInBytes
                               THEN [state |-> XorAt(Call("KeccakP1600_Permute_12rounds", <<c.finalNode.state>>), 0, 7),
                                     byteIOIndex |-> idx]
                               ELSE [state |-> XorAt(c.finalNode.state, idx, 7), byteIOIndex |-> idx],
                 !.suffixes = Append(@, 7)]

\* the number of bytes of v, at most 8 (lines 577-580); v < 2^31 here
RECURSIVE K12_CountBytes(_, _)
K12_CountBytes(v, n) == IF v # 0 /\ n < 8 THEN K12_CountBytes(v \div 256, n + 1) ELSE n

\* K12_EncodeBlockNumber with the byte count written before the value instead of after it
K12_EncodeBlockNumber_LengthFirst(blockNumber) ==
    LET n == K12_CountBytes(blockNumber, 0)
    IN Tup([i \in 1..(n + 3) |-> IF i = 1 THEN n
                                ELSE IF i <= n + 1 THEN (blockNumber \div (256 ^ (n + 1 - i))) % 256
                                ELSE 255], n + 3)

\* lines 581-588: the big-endian bytes of blockNumber, their number, 0xFF 0xFF
K12_EncodeBlockNumber(blockNumber) ==
    LET n == K12_CountBytes(blockNumber, 0)
    IN Tup([i \in 1..(n + 3) |-> IF i <= n THEN (blockNumber \div (256 ^ (n - i))) % 256
                                ELSE IF i = n + 1 THEN n ELSE 255], n + 3)

\* lines 567-593: finalisation, up to the last permutation
K12_Final(c) ==
    LET d == IF c.blockNumber # 0
             THEN LET e == IF c.queueAbsorbedLen # 0
                           THEN [K12_CloseLeaf(c, c.queueNode) EXCEPT !.queueNode.byteIOIndex = c.queueNode.byteIOIndex]
                           ELSE c
                      bn == e.blockNumber - 1
                      encbuf == K12_EncodeBlockNumber(bn)
                      f == Call("KangarooTwelve_F_Absorb", <<e.finalNode, encbuf, Len(encbuf)>>)
                  IN [e EXCEPT !.blockNumber = bn, !.encbuf = encbuf,
                               !.finalNode = [f EXCEPT !.state = XorAt(f.state, f.byteIOIndex, 6)],
                               !.suffixes = Append(@, 6)]
             ELSE c
    IN [d EXCEPT !.finalNode.state = Call("KeccakP1600_Permute_12rounds", <<XorAt(d.finalNode.state, K12_rateInBytes - 1, 128)>>)]

\* the while loop of the tree path run to its end
RECURSIVE K12_Loop(_)
K12_Loop(c) == IF c.inputByteLen > 0 THEN LET d == Call("K12_Chunk", <<c>>) IN Then(d, K12_Loop(d)) ELSE c

\* lines 465-593 in one piece: the locals when KangarooTwelve reaches its memcpy
K12_Run(input, inputByteLen, outputByteLen) ==
    LET c == Call("K12_First", <<K12_Enter(input, inputByteLen, outputByteLen)>>)
        d == IF c.len = K12_chunkSize /\ c.inputByteLen # 0
             THEN Call("K12_Tail", <<K12_Loop(Call("K12_TreeBegin", <<c>>))>>)
             ELSE IF c.len = K12_chunkSize THEN Call("K12_ExactChunk", <<c>>)
             ELSE Call("K12_Short", <<c>>)
    IN Then(c, Then(d, Call("K12_Final", <<d>>)))

\* KangarooTwelve(input, inputByteLen, output, outputByteLen) for outputByteLen <= 200:
\* line 594 copies the first outputByteLen bytes of the state
KangarooTwelve(input, inputByteLen, outputByteLen) ==
    SubSeq(K12_Run(input, inputByteLen, outputByteLen).finalNode.state, 1, outputByteLen)

----------------------------------------------------------------------------
(* Constants of the curve.  An unsigned long long array is the sequence of its words. *)

CURVE_ORDER_0 == <<231, 140, 118, 199, 14, 84, 178, 47>>
CURVE_ORDER_1 == <<153, 121, 15, 254, 77, 0, 189, 223>>
CURVE_ORDER_2 == <<229, 20, 188, 156, 130, 151, 83, 240>>
CURVE_ORDER_3 == <<114, 10, 94, 78, 193, 203, 41, 0>>
MONTGOMERY_SMALL_R_PRIME_0 == <<41, 57, 188, 121, 240, 229, 47, 225>>
MONTGOMERY_SMALL_R_PRIME_1 == <<243, 220, 252, 209, 184, 120, 94, 215>>
MONTGOMERY_SMALL_R_PRIME_2 == <<33, 219, 181, 118, 237, 9, 228, 188>>
MONTGOMERY_SMALL_R_PRIME_3 == <<116, 192, 193, 175, 253, 2, 39, 243>>
B11 == <<106, 94, 95, 31, 216, 0, 249, 246>>
B12 == <<160, 45, 42, 194, 98, 232, 99, 19>>
B13 == <<241, 252, 55, 19, 206, 159, 189, 248>>
B14 == <<81, 230, 185, 134, 153, 115, 79, 8>>
B21 == <<44, 61, 3, 123, 21, 164, 182, 226>>
B22 == <<1, 0, 0, 0, 0, 0, 0, 0>>
B23 == <<255, 255, 255, 255, 255, 255, 255, 255>>
B24 == <<48, 152, 46, 114, 67, 58, 36, 218>>
B31 == <<254, 252, 224, 220, 226, 82, 84, 232>>
B32 == <<175, 37, 119, 28, 229, 222, 59, 253>>
B33 == <<159, 196, 39, 137, 201, 33, 77, 46>>
B34 == <<105, 50, 209, 63, 187, 144, 97, 245>>
B41 == <<193, 55, 247, 110, 245, 203, 145, 236>>
B42 == <<206, 0, 31, 60, 210, 32, 221, 206>>
B43 == <<181, 169, 168, 42, 240, 73, 138, 6>>
B44 == <<234, 10, 222, 150, 120, 8, 213, 24>>
C1 == <<156, 85, 164, 81, 82, 44, 72, 114>>
C2 == <<108, 111, 39, 221, 10, 91, 249, 89>>
C3 == <<120, 250, 37, 70, 124, 209, 210, 125>>
C4 == <<119, 136, 206, 86, 239, 125, 197, 107>>

PARAMETER_d == <<<<66, 1, 0, 0, 0, 0, 0, 0>>, <<228, 0, 0, 0, 0, 0, 0, 0>>, <<141, 12, 252, 241, 136, 20, 130, 179>>, <<252, 224, 87, 102, 132, 47, 71, 94>>>>
curve_order == <<CURVE_ORDER_0, CURVE_ORDER_1, CURVE_ORDER_2, CURVE_ORDER_3>>
Montgomery_Rprime == <<<<33, 214, 243, 95, 121, 184, 29, 200>>, <<125, 56, 107, 234, 170, 165, 62, 23>>, <<28, 246, 54, 33, 199, 183, 1, 61>>, <<211, 249, 200, 106, 241, 165, 6, 0>>>>
ONE == <<<<1, 0, 0, 0, 0, 0, 0, 0>>, <<0, 0, 0, 0, 0, 0, 0, 0>>, <<0, 0, 0, 0, 0, 0, 0, 0>>, <<0, 0, 0, 0, 0, 0, 0, 0>>>>
ctau1 == <<<<195, 116, 206, 235, 124, 213, 220, 116>>, <<12, 210, 250, 58, 44, 222, 100, 25>>, <<18, 0, 0, 0, 0, 0, 0, 0>>, <<12, 0, 0, 0, 0, 0, 0, 0>>>>
ctaudual1 == <<<<52, 240, 205, 222, 217, 166, 202, 158>>, <<82, 134, 5, 35, 235, 64, 167, 74>>, <<17, 0, 0, 0, 0, 0, 0, 0>>, <<244, 255, 255, 255, 255, 255, 255, 127>>>>
cphi0 == <<<<247, 255, 255, 255, 255, 255, 255, 255>>, <<5, 0, 0, 0, 0, 0, 0, 0>>, <<26, 248, 102, 239, 108, 83, 101, 79>>, <<41, 195, 130, 145, 117, 160, 83, 37>>>>
cphi1 == <<<<7, 0, 0, 0, 0, 0, 0, 0>>, <<5, 0, 0, 0, 0, 0, 0, 0>>, <<249, 150, 130, 226, 233, 144, 77, 51>>, <<207, 98, 12, 197, 160, 202, 200, 98>>>>
cphi2 == <<<<21, 0, 0, 0, 0, 0, 0, 0>>, <<15, 0, 0, 0, 0, 0, 0, 0>>, <<145, 243, 29, 79, 21, 183, 44, 44>>, <<152, 92, 155, 108, 43, 38, 223, 120>>>>
cphi3 == <<<<3, 0, 0, 0, 0, 0, 0, 0>>, <<2, 0, 0, 0, 0, 0, 0, 0>>, <<164, 46, 150, 167, 87, 4, 68, 146>>, <<42, 52, 118, 29, 73, 198, 132, 80>>>>
cphi4 == <<<<3, 0, 0, 0, 0, 0, 0, 0>>, <<3, 0, 0, 0, 0, 0, 0, 0>>, <<85, 104, 236, 58, 146, 140, 9, 161>>, <<164, 46, 150, 167, 87, 4, 68, 18>>>>
cphi5 == <<<<15, 0, 0, 0, 0, 0, 0, 0>>, <<10, 0, 0, 0, 0, 0, 0, 0>>, <<243, 45, 5, 197, 211, 33, 155, 102>>, <<158, 197, 24, 138, 65, 149, 145, 69>>>>
cphi6 == <<<<24, 0, 0, 0, 0, 0, 0, 0>>, <<18, 0, 0, 0, 0, 0, 0, 0>>, <<231, 91, 10, 138, 167, 67, 54, 205>>, <<60, 139, 49, 20, 131, 42, 35, 11>>>>
cphi7 == <<<<35, 0, 0, 0, 0, 0, 0, 0>>, <<24, 0, 0, 0, 0, 0, 0, 0>>, <<26, 120, 72, 95, 3, 131, 193, 102>>, <<26, 234, 226, 153, 28, 188, 99, 57>>>>
cphi8 == <<<<240, 0, 0, 0, 0, 0, 0, 0>>, <<170, 0, 0, 0, 0, 0, 0, 0>>, <<240, 14, 93, 43, 88, 81, 226, 68>>, <<229, 203, 22, 3, 134, 159, 82, 31>>>>
cphi9 == <<<<239, 11, 0, 0, 0, 0, 0, 0>>, <<112, 8, 0, 0, 0, 0, 0, 0>>, <<5, 37, 110, 151, 72, 62, 77, 1>>, <<91, 55, 0, 254, 156, 46, 213, 15>>>>
cpsi1 == <<<<239, 70, 227, 103, 71, 127, 240, 237>>, <<2, 74, 213, 131, 154, 158, 249, 42>>, <<58, 1, 0, 0, 0, 0, 0, 0>>, <<222, 0, 0, 0, 0, 0, 0, 0>>>>
cpsi2 == <<<<67, 1, 0, 0, 0, 0, 0, 0>>, <<228, 0, 0, 0, 0, 0, 0, 0>>, <<114, 243, 3, 14, 119, 235, 125, 76>>, <<3, 31, 168, 153, 123, 208, 184, 33>>>>
cpsi3 == <<<<9, 0, 0, 0, 0, 0, 0, 0>>, <<6, 0, 0, 0, 0, 0, 0, 0>>, <<97, 58, 231, 117, 190, 106, 110, 58>>, <<6, 105, 125, 29, 22, 111, 178, 76>>>>
cpsi4 == <<<<246, 255, 255, 255, 255, 255, 255, 255>>, <<249, 255, 255, 255, 255, 255, 255, 127>>, <<158, 197, 24, 138, 65, 149, 145, 197>>, <<249, 150, 130, 226, 233, 144, 77, 51>>>>
ell1 == <<<<79, 125, 26, 157, 224, 134, 150, 37>>, <<102, 189, 166, 230, 172, 130, 86, 247>>, <<223, 229, 43, 234, 197, 181, 91, 252>>, <<7, 0, 0, 0, 0, 0, 0, 0>>>>
ell2 == <<<<251, 122, 98, 221, 132, 29, 186, 209>>, <<141, 141, 70, 15, 88, 53, 210, 43>>, <<138, 15, 108, 170, 76, 176, 212, 143>>, <<3, 0, 0, 0, 0, 0, 0, 0>>>>
ell3 == <<<<60, 32, 140, 103, 51, 26, 41, 155>>, <<2, 169, 220, 101, 201, 214, 43, 196>>, <<246, 186, 255, 11, 141, 191, 56, 208>>, <<0, 0, 0, 0, 0, 0, 0, 0>>>>
ell4 == <<<<192, 253, 231, 119, 107, 102, 229, 18>>, <<130, 61, 152, 20, 55, 220, 203, 129>>, <<16, 132, 45, 162, 119, 56, 7, 27>>, <<3, 0, 0, 0, 0, 0, 0, 0>>>>
\* each word of FIXED_BASE_TABLE as bits 0..23, 24..47 and 48..63
FIXED_BASE_TABLE ==
    << 255537, 3470247, 57738, 5253983, 6340381, 10356, 16319315, 6485988, 57390, 8826078, 10499979, 3131
     , 9666268, 1022128, 37055, 15779157, 8157220, 29707, 10490726, 2330915, 45857, 9787301, 16103738, 20476
     , 14303931, 16567211, 10618, 7116742, 13711189, 22856, 3172428, 10107187, 43032, 3415847, 2847242, 3247
     , 1607559, 10492157, 14987, 14488232, 1212808, 21830, 10460023, 13382592, 45235, 5054537, 15399096, 7086
     , 16447744, 2467345, 100, 10942345, 13439713, 6391, 5595238, 15768082, 28108, 15185643, 388780, 17550
     , 2632112, 3369117, 48943, 5750196, 1952553, 28049, 3933166, 5495772, 40739, 12510465, 4392378, 1733
     , 11510053, 4550973, 11951, 9057869, 3168356, 29334, 3227378, 7806877, 25015, 14856297, 13105343, 20289
     , 9932972, 2338393, 16518, 3344962, 8750660, 19763, 14513287, 9856156, 64598, 10019092, 7528677, 29919
     , 3936523, 6497681, 51616, 14987480, 13898079, 1899, 12579801, 10380758, 30305, 15612424, 4199548, 9362
     , 9853555, 12149064, 54933, 2750214, 13148808, 10410, 16229755, 12604201, 16881, 253966, 11135135, 17436
     , 16196638, 3713931, 57770, 3323892, 9220040, 22770, 5505222, 16300282, 51930, 5146174, 13698600, 13494
     , 15814807, 9218874, 62793, 8232009, 7835649, 28094, 4778172, 7776276, 25535, 3858438, 9591794, 25457
     , 15565306, 13050301, 50658, 8410795, 7401174, 20190, 9918480, 14267828, 36668, 694952, 16587055, 18258
     , 7554068, 9759519, 12679, 4621922, 16241352, 4573, 11641678, 11562866, 9747, 11560816, 7713658, 18005
     , 6524203, 8675202, 16569, 170190, 4214905, 18569, 11858225, 9676033, 48859, 9024251, 5639464, 1267
     , 5973899, 14185745, 17789, 9602442, 6219085, 22258, 825214, 12701134, 37588, 14109078, 13255047, 1935
     , 13378209, 3009910, 15291, 14429174, 2655549, 4475, 12761762, 7765177, 17395, 15370895, 10364384, 29447
     , 1407341, 10038106, 375, 14282642, 7476352, 11895, 3614998, 8926567, 48649, 16209773, 1534842, 9615
     , 6830363, 3734881, 12419, 7558052, 9592730, 29317, 15225108, 1036367, 34348, 3861329, 10413890, 21285
     , 3873384, 3254347, 65024, 10514940, 1926687, 6735, 13183143, 5510797, 11741, 1665642, 6036191, 24600
     , 7186868, 9902044, 18816, 13630467, 609101, 24674, 16416397, 10942981, 42014, 7424160, 14708519, 19023
     , 10387696, 5482990, 31666, 11605811, 9604044, 16794, 10093470, 3925610, 33842, 2626747, 13741719, 434
     , 332337, 8750291, 42840, 9936343, 1974476, 21727, 3089117, 458302, 37337, 14621199, 15308639, 20022
     , 7632436, 7435371, 55320, 14758963, 3259118, 15966, 7584419, 8427413, 58586, 16676806, 2808188, 19333
     , 4295582, 3434260, 57483, 15134600, 7445295, 10301, 6035467, 10300900, 46899, 13817288, 16576273, 30124
     , 5642358, 7830156, 36672, 1264715, 11288743, 3156, 12250632, 2653542, 47406, 10586303, 8278022, 28469
     , 1993073, 3348973, 50576, 14351680, 4583313, 29820, 3113326, 8825117, 56896, 11792253, 2616755, 24011
     , 1954542, 12872954, 17405, 9856152, 2072432, 20821, 15571932, 3471201, 46405, 4173951, 5616391, 17716
     , 13285131, 7594883, 62023, 9237727, 14835317, 26523, 4124201, 15594132, 55831, 14421862, 15055062, 15817
     , 4175707, 834113, 22181, 11031423, 3234757, 7781, 2912787, 148096, 24569, 2434350, 14207220, 29641
     , 1674383, 8095283, 15459, 4280115, 8696813, 21327, 14510338, 4092638, 44337, 14627759, 8295452, 24277
     , 5714030, 14687530, 23151, 4658169, 4057652, 29622, 1846259, 7362319, 14795, 1710299, 13034655, 11768
     , 7837668, 12798311, 26139, 12488802, 15190974, 20506, 9803331, 11046376, 23378, 12590417, 7677969, 882
     , 1816872, 5743152, 268, 5590982, 3240277, 14219, 10497265, 16400937, 63619, 14146345, 4700240, 24320
     , 4205994, 8053544, 19748, 5284540, 403368, 3331, 10765301, 6134408, 46310, 7188617, 6843181, 28361
     , 10606983, 3016958, 56864, 9270784, 14799858, 23652, 6406071, 1556214, 5501, 7680844, 2963165, 22073
     , 1643868, 7919805, 57940, 3369725, 5188925, 5229, 5117416, 14683129, 39931, 14618816, 5937770, 11032
     , 5417851, 2601965, 37477, 1056384, 8262771, 26521, 8176961, 5239956, 46479, 13212282, 51194, 14072
     , 284377, 3027520, 53296, 12347771, 14956096, 17266, 5298328, 13286215, 37188, 10632383, 5962441, 30162
     , 5622782, 9533046, 31045, 16534279, 2188823, 29915, 6738121, 11674661, 28759, 4291363, 3889416, 7508
     , 4360067, 8434756, 6594, 7128047, 654731, 13603, 6860402, 4025024, 14211, 12589556, 6756899, 20160
     , 13654965, 3596707, 40344, 2420707, 1761266, 17662, 8321866, 12336357, 41622, 10568016, 13133877, 12030
     , 1657802, 10226171, 12257, 3985926, 512917, 6348, 12630496, 15865801, 23519, 1752302, 10966616, 26394
     , 16241058, 3386920, 57804, 10527742, 2443575, 7023, 12237699, 4003429, 20816, 8950289, 5650133, 29881
     , 9893993, 8053994, 48569, 2429117, 13506718, 5383, 12139283, 5068026, 31086, 9832745, 7757573, 27265
     , 11023341, 336357, 11924, 4585028, 10826418, 15326, 13969043, 6911487, 48807, 7163606, 4737210, 25785
     , 14892743, 2949524, 40373, 6528805, 6675029, 29135, 5931320, 3874779, 60903, 6478882, 13712236, 4836
     , 1594647, 11584101, 40217, 11926992, 1167959, 30624, 13468900, 12962478, 8173, 3445457, 5117214, 18052
     , 4333791, 3813776, 31298, 15265945, 6670151, 23345, 3531310, 6220511, 7270, 4544859, 11884284, 30722
     , 6017758, 14611457, 34210, 7431853, 11241365, 6130, 6341093, 7157024, 6607, 4230762, 8049086, 4650
     , 6027110, 12306532, 23417, 711375, 40269, 8443, 10650936, 6956843, 38738, 4328414, 11856141, 28737
     , 14331991, 1127256, 15152, 13779523, 9135856, 15673, 13453064, 10066435, 37285, 9666710, 2361805, 7854
     , 3543180, 7037004, 26333, 530792, 538505, 5907, 2481405, 14061937, 22474, 324042, 7125143, 13488
     , 3517426, 15263519, 56495, 5524921, 3217805, 27011, 11470683, 6776387, 25223, 10300269, 5301589, 8201
     , 14520436, 4178924, 54518, 11277218, 3240258, 29811, 3248982, 198661, 38576, 4421818, 16769060, 11296
     , 6995994, 5315282, 18569, 9960694, 2564505, 20195, 784618, 15132431, 5631, 13674199, 8369318, 27489
     , 3109668, 14459333, 18710, 4620919, 6942854, 15490, 3661899, 1098952, 49730, 5919788, 741265, 20040
     , 8381278, 15970458, 50686, 16614578, 122436, 12709, 10749881, 10373440, 31218, 13428139, 14695589, 2983
     , 7657706, 11666826, 42920, 2546396, 13074702, 18164, 10556042, 1756820, 17943, 9807889, 5571156, 17627
     , 15830364, 10361419, 32648, 15926962, 1518147, 19791, 1900461, 9922235, 13225, 13867722, 7821604, 25172
     , 2429806, 2297538, 55381, 14229789, 5099640, 7252, 4154298, 10054134, 4862, 10343298, 15850644, 1690
     , 15057494, 13582543, 12379, 12301717, 9474635, 25518, 12049926, 620435, 58449, 12583998, 848799, 2424
     , 7964785, 16312299, 33402, 5732919, 9071735, 15054, 14702010, 398130, 31199, 13543723, 12614314, 22045
     , 861811, 2283906, 32324, 11490120, 14648288, 27525, 14176875, 1753566, 7957, 7422653, 14214421, 13802
     , 13082068, 15690803, 28070, 9764324, 10505509, 24366, 2610682, 8195264, 37123, 11547419, 4198407, 21429
     , 4957603, 1673789, 33039, 11092373, 12395931, 17507, 2805662, 9743596, 12984, 4409806, 1532374, 30833
     , 2089489, 14791669, 9530, 5989475, 4931411, 16542, 6179294, 7147738, 14883, 2175850, 11600540, 6610
     , 11197840, 15991862, 10293, 1641241, 10687749, 2370, 8553081, 1251446, 49545, 9314204, 9880522, 15102
     , 2295443, 111761, 40728, 6279313, 9287778, 14818, 13913230, 5256541, 40875, 10168333, 5626482, 5201
     , 5076693, 16257053, 54220, 2845800, 11147916, 23055, 5565066, 7111883, 15558, 6735731, 2941941, 20741
     , 11444213, 1367653, 15342, 13430820, 1149441, 30086, 7074142, 7937161, 2206, 1938390, 142630, 13823
     , 8199417, 14761359, 52540, 12040438, 15306645, 20253, 14434740, 9053282, 20966, 16178473, 10370083, 25005
     , 15457105, 15361152, 22607, 10349811, 16647999, 23890, 15939285, 4734637, 39678, 11626858, 248192, 7674
     , 8493593, 4016127, 22007, 1114349, 16080182, 27003, 3773465, 8406086, 57044, 13510047, 9717375, 24972
     , 9368844, 8385008, 62041, 14234560, 3520909, 1993, 14603766, 9223288, 47989, 1250447, 853679, 7834
     , 5035227, 14763391, 34716, 2967956, 7119254, 10297, 7734723, 5914053, 62729, 12920753, 998820, 7767
     , 9656199, 10107140, 10998, 13638862, 14907133, 22814, 12355123, 5824392, 63355, 15963601, 14045618, 21604
     , 10127022, 617246, 44988, 5991208, 14633974, 27874, 10305032, 8555822, 15162, 2975440, 73101, 25474
     , 4004157, 8169037, 38040, 7165615, 16190779, 20701, 11343273, 16153800, 36189, 5971858, 8427708, 14624
     , 14001403, 16064735, 52889, 6978473, 12355512, 12859, 247689, 8956120, 57663, 2097237, 14466546, 22271
     , 2410285, 893723, 15103, 789526, 1402438, 28673, 12872211, 12055866, 30455, 490434, 10223287, 7174
     , 4865078, 1653921, 36679, 8969789, 14895856, 28019, 8218164, 2873649, 25419, 8330952, 4667575, 23360
     , 10603293, 11253532, 62287, 5532230, 12307146, 1354, 15574624, 13294856, 59597, 9166577, 11255701, 26993
     , 14372527, 8738781, 16691, 7976572, 8750512, 7701, 10641512, 292047, 53799, 13542505, 7156403, 21427
     , 5520648, 2343276, 277, 7549262, 15281247, 18024, 1551569, 4111937, 47855, 1282842, 8198823, 1027
     , 9488013, 1631459, 26849, 4986229, 13456804, 27520, 2736178, 15370839, 29447, 15309490, 4677614, 23749
     , 1354869, 934476, 13381, 11787480, 1408605, 16137, 5800018, 2825040, 25294, 6631311, 10077518, 10152
     , 12756461, 237359, 2765, 8470252, 4513237, 19264, 10967384, 1613456, 49229, 1913761, 5356775, 9253
     , 16285445, 16345937, 55642, 645141, 8921336, 664, 9733061, 6682427, 45695, 3558211, 476660, 12022
     , 5224633, 12437823, 52070, 5684106, 13218951, 11142, 9988001, 14344347, 63723, 7334314, 7346254, 17438
     , 13374089, 5440304, 64962, 5073298, 14047883, 18392, 11433150, 11991600, 35843, 12425685, 6896835, 7336
     , 1634982, 11620624, 27038, 16056309, 4678873, 15776, 3844953, 2114365, 13847, 12081151, 1138988, 12201
     , 3087532, 8233228, 41989, 10864153, 1685811, 18594, 6228933, 1056977, 16948, 10526125, 8998982, 29688
     , 7610808, 5444294, 7085, 9331246, 7805750, 16788, 5115391, 1735140, 36039, 6812098, 6612052, 19269
     , 15016083, 15821487, 30553, 6274729, 7462103, 14619, 5175192, 431275, 10780, 4461325, 8868948, 560
     , 11147937, 14811087, 19322, 3367399, 7287511, 25826, 742585, 7354557, 36260, 15527445, 16412650, 5260
     , 12766269, 13948025, 14166, 1393630, 5155027, 9684, 12266563, 9170726, 55340, 2618239, 4653885, 11296
     , 14340704, 4036663, 23507, 3685245, 3217315, 30612, 10847218, 1927550, 4615, 2251762, 4269866, 15484
     , 15743699, 12450545, 37611, 11941636, 199784, 23905, 15627729, 2642874, 51822, 1717814, 4928631, 4672
     , 6717007, 12870438, 48659, 10216368, 6394223, 11218, 13111177, 16305069, 34531, 9751368, 887319, 29778
     , 5044606, 13059330, 7701, 5499650, 7609886, 23790, 10079649, 9298095, 36104, 12617260, 1218076, 25176
     , 12642612, 4420385, 17171, 2422692, 13068484, 24763, 1106243, 2080572, 43943, 11081144, 15376148, 14264
     , 136191, 15492548, 36246, 7832668, 8923391, 29856, 16123811, 7443674, 48859, 1869574, 6713622, 6120
     , 4217295, 10018898, 44267, 9531145, 2802836, 26709, 1784903, 9903023, 19666, 14818160, 3063005, 26692
     , 8811925, 10193934, 6498, 6268026, 5624675, 27241, 14914477, 4579570, 28587, 15749316, 4125948, 26333
     , 14450161, 8043773, 47883, 774044, 5993755, 5355, 16597277, 10460322, 7415, 15753226, 7304191, 23625
     , 4353392, 9274709, 18788, 2283689, 92707, 18113, 10186063, 14386957, 46463, 14530099, 11948553, 24734
     , 14451397, 9529022, 59151, 11513639, 11908552, 30511, 2259488, 9755056, 31138, 2997389, 11616529, 32629
     , 458784, 13105294, 39121, 8525745, 13675204, 22867, 6239231, 5499873, 57986, 6376517, 1949982, 9853
     , 10363462, 16059065, 48740, 16667797, 11230338, 20138, 6340304, 5947518, 37501, 11148109, 7892454, 26579
     , 7219525, 6471439, 42777, 6220443, 3687587, 25561, 6701228, 2672594, 45890, 2684321, 3724011, 5788
     , 3791906, 7516980, 19321, 11148820, 8673229, 28999, 1923271, 14755308, 21030, 9426161, 8885991, 26269
     , 4497535, 13740714, 29965, 15449807, 6468954, 12924, 5225765, 9344437, 107, 15414862, 16342273, 10931
     , 14016918, 5275840, 64702, 5760805, 10213210, 10779, 1284957, 2844504, 7467, 10189427, 16035716, 29980
     , 8192165, 8203827, 5706, 8627388, 14918859, 206, 12462329, 14693997, 13464, 13796610, 9015624, 1341
     , 11598697, 6120650, 358, 14061172, 1253896, 19097, 4165981, 12309693, 47684, 2171579, 11598103, 7476
     , 15247859, 5097257, 23825, 3361632, 10763733, 2279, 15791080, 9343538, 10459, 2510690, 12458880, 23735
     , 5279523, 13076354, 39666, 14918066, 15191287, 13162, 13735102, 13954605, 32738, 9070706, 3021611, 22333
     , 11725366, 15348579, 13106, 2048579, 12662619, 8203, 11740685, 8162310, 26052, 10050654, 2083411, 16898
     , 11639110, 7140507, 12158, 1666348, 12216867, 12575, 14735117, 1291819, 49932, 1159388, 11277351, 25070
     , 8205780, 6919769, 34898, 12394967, 10210278, 28694, 2729232, 11718829, 41201, 12695885, 5444722, 10974
     , 9991143, 2153496, 4579, 6085432, 1545448, 11562, 16130531, 12866470, 41128, 2488055, 14005573, 19206
     , 4779036, 1468696, 62505, 5736240, 1463645, 7490, 678734, 894761, 63686, 15947359, 10434977, 26333
     , 11826336, 2742583, 21932, 3579620, 9861706, 17041, 15121545, 11315730, 37261, 5358352, 15241222, 15686
     , 954545, 5517472, 44805, 10865209, 2880877, 5878, 9196006, 1848136, 6658, 16497877, 14344035, 3428
     , 12577404, 15525277, 2328, 7610426, 1693661, 15155, 10463500, 5528459, 7560, 9198054, 9624720, 5047
     , 4000121, 9673372, 2605, 4976935, 6143671, 12826, 7177328, 4718582, 24153, 2538649, 10406653, 8940
     , 11601206, 13271699, 56855, 10344518, 5685333, 22847, 4739107, 3617653, 4424, 4492060, 11599351, 9158
     , 2588751, 279946, 14201, 2550384, 9541159, 22334, 3517552, 11685682, 13793, 16054366, 532553, 20922
     , 13922708, 9535840, 19396, 582109, 10624563, 23849, 7228979, 8997694, 32277, 3264763, 12398415, 20699
     , 11127262, 9163317, 61220, 6506256, 11391515, 13336, 3554258, 2308690, 38599, 575903, 1355162, 31876
     , 15122524, 13322836, 48234, 9656218, 137745, 22313, 588316, 12836875, 1575, 8137331, 5241313, 15627
     , 9449855, 15234393, 54535, 8126024, 8106940, 30130, 15094261, 994412, 17576, 7368262, 9829403, 31639
     , 16361024, 6020861, 40423, 12581544, 15010490, 30125, 559520, 11605639, 52746, 5893228, 14482653, 28477
     , 14550644, 8598920, 28214, 2662515, 1124842, 10525, 8932705, 15022180, 63672, 8736118, 16314798, 28782
     , 7680105, 9201027, 4986, 2160998, 6233286, 484, 7784378, 2095151, 57998, 15244372, 10398947, 14034
     , 739787, 10425727, 33591, 11319607, 12820011, 26089, 842302, 3949831, 39730, 8269285, 3092907, 5856
     , 5317303, 15943267, 21436, 12770825, 14813142, 8151, 1988524, 6264042, 14943, 15774943, 452816, 3258
     , 11125650, 4244359, 28852, 14800896, 12665822, 7805, 3772715, 12217714, 21656, 1584404, 7381015, 13096
     , 2980172, 457831, 27619, 5974862, 14815524, 11308, 2860959, 7482509, 4251, 6255226, 2161308, 9861
     , 16677102, 3147044, 20827, 11445912, 126155, 29538, 1097592, 11276594, 17928, 4462659, 16617884, 13016
     , 12120792, 8264452, 51541, 14447705, 3667864, 30548, 10754037, 16078939, 4608, 8049412, 15490878, 11776
     , 4481672, 4022059, 64647, 4749028, 693090, 12839, 7904034, 10779656, 50758, 5641918, 14286482, 9072
     , 15102404, 16397849, 17162, 2056114, 6868652, 5476, 4290101, 14598898, 15236, 12641679, 954391, 12564
     , 7619578, 16288971, 23685, 14181548, 6249828, 3495, 11598724, 16009329, 10591, 3356355, 14748589, 7033
     , 2717619, 10044125, 65503, 10099235, 1674511, 19483, 1214030, 9053377, 47735, 7162064, 6854642, 29942
     , 8042001, 12611206, 16341, 7895225, 13513727, 19352, 13341029, 5099125, 63451, 15487331, 5939353, 4454
     , 7411897, 9377454, 10825, 15421594, 12835764, 9822, 13511814, 2295400, 15780, 14889861, 2861746, 14054
     , 11224184, 8211065, 39248, 2001013, 11729985, 9663, 142561, 2017587, 55212, 3998822, 4304387, 9171
     , 6470656, 11822569, 53909, 14102912, 2169762, 9168, 9579853, 13466367, 41020, 3151124, 7424222, 7798
     , 9760683, 11220648, 49729, 16522840, 12776259, 7327, 13793927, 9852459, 51771, 14512149, 4072069, 21346
     , 2200608, 1175580, 21876, 7029497, 5601033, 6438, 2316591, 2987035, 54065, 12917766, 11116995, 12457
     , 7245689, 11580394, 15753, 13073586, 7675333, 32427, 14642742, 11634406, 49321, 1398420, 5068863, 20356
     , 9691130, 1581863, 16784, 13862221, 4459371, 10973, 14642738, 8450353, 54612, 14935063, 14910570, 12684
     , 623860, 404762, 1381, 12581366, 15492050, 28346, 15177616, 6285097, 30471, 13149415, 4408868, 3545
     , 11120738, 1172191, 49039, 15250276, 14165342, 6935, 2908996, 1379575, 25282, 8513756, 6848720, 10256
     , 15503809, 11472351, 62628, 8265518, 945303, 6799, 12136815, 10725176, 29351, 5120748, 1471116, 12855
     , 10792763, 6882907, 49472, 1168231, 1320073, 2069, 11977527, 4913832, 20925, 3408103, 8035153, 20711
     , 8529224, 334634, 18112, 6216956, 8840218, 584, 13287807, 981569, 41067, 10245749, 3190811, 13162
     , 620070, 2887882, 29947, 15272321, 5024328, 11040, 10582900, 13193913, 26882, 2240571, 15316665, 14786
     , 5862425, 7052092, 47393, 15818614, 9634404, 28050, 11408423, 9950702, 31506, 1823495, 4500990, 3847
     , 15116445, 8267355, 13237, 3501072, 10675507, 10287, 14448428, 10050657, 14851, 4050933, 9395849, 20317
     , 4719167, 9600764, 19452, 10913198, 2245078, 22895, 2734242, 14725100, 15539, 6633538, 9309456, 12545
     , 5723686, 1042756, 12240, 8577041, 14184521, 4673, 6783399, 5662286, 38669, 4055758, 16030991, 6917
     , 7437926, 16768867, 43412, 11046552, 7645035, 16739, 15816602, 2944339, 35592, 13806155, 1964725, 22136
     , 6664984, 14613784, 33105, 6324727, 10191885, 25702, 3727694, 16038751, 58422, 9915200, 3686666, 17364
     , 6733314, 13546454, 22578, 14779022, 8232474, 1588, 14936710, 4660025, 27001, 4938468, 13590987, 11506
     , 5926628, 2747098, 47019, 13260648, 6075034, 4839, 860156, 1116627, 58971, 3280474, 12504427, 29177
     , 4714201, 8979046, 56450, 10831247, 2950412, 12758, 5554661, 12538426, 59947, 15619217, 15776227, 24619
     , 8432971, 7561763, 9642, 14638936, 1978993, 11115, 10503949, 15718506, 56261, 12858699, 3941560, 1333
     , 14707658, 14367989, 41927, 5154295, 1871659, 10378, 13532321, 3104274, 54805, 6765693, 12694582, 22996
     , 2083733, 5590610, 7682, 709696, 9965348, 26323, 10803665, 7301945, 44017, 4992866, 3480745, 32746
     , 9528250, 11989816, 15714, 7902698, 11816750, 4038, 10995305, 4457421, 54726, 6304147, 10029326, 11840
     , 16403503, 1027861, 39772, 1226297, 6069646, 17961, 5976859, 11392570, 23780, 5003385, 12415852, 24487
     , 13741810, 4658247, 18355, 3299129, 4987938, 10240, 3953305, 4423066, 54664, 13445096, 10229778, 10929
     , 227330, 63104, 15079, 4336438, 6520843, 6865, 12329273, 15677178, 17847, 14466333, 14614305, 17596
     , 14752891, 14295409, 16838, 12897300, 15628791, 11317, 12662857, 9709401, 18514, 12453130, 13790992, 25746
     , 5304537, 5150860, 42741, 6428699, 11712221, 27181, 6182819, 8416042, 63449, 10829088, 7068475, 22354
     , 58960, 7123445, 6094, 16315205, 4304962, 1496, 9300336, 683113, 43648, 14863246, 11884971, 1268
     , 10282141, 14669605, 49232, 5093685, 3784185, 8504, 3170820, 2459221, 45937, 16347226, 3902233, 32050
     , 11978264, 5253910, 9940, 9001307, 7367082, 31089, 11802738, 12641133, 63591, 7791056, 120940, 5078
     , 1799043, 9112883, 11772, 3047541, 7533540, 6228, 1108896, 1304363, 1469, 16227221, 3699856, 20890
     , 11347200, 12694227, 36105, 15791923, 10771756, 1117, 6439532, 8492392, 25601, 16653065, 5764507, 29325
     , 10667397, 10454925, 63913, 14437904, 8592993, 20420, 3756000, 183380, 28102, 15329454, 5663591, 1156
     , 9666715, 15746890, 50684, 15983291, 12728920, 29120, 16673859, 16432694, 46080, 14991527, 3096238, 24908
     , 14796481, 11108560, 30224, 8936908, 1670280, 7400, 12765995, 1875770, 60126, 3093534, 13663151, 18202
     , 70171, 8617067, 54906, 5884761, 6563871, 10894, 3302090, 123951, 21223, 15009152, 10649068, 6624
     , 12428972, 1841063, 46441, 10351090, 4993307, 17224, 11422186, 5592219, 42625, 2489061, 12967330, 17314
     , 7343855, 10037997, 64094, 9537622, 2053667, 22673, 9194921, 8495588, 25739, 13681597, 14879933, 26342
     , 10298987, 2137110, 62394, 4486789, 11035184, 8439, 802094, 5941786, 53691, 1118705, 2720829, 13932
     , 13406227, 9135149, 1735, 648187, 4875489, 10056, 6780004, 11320484, 36750, 12733633, 11737885, 2924
     , 9375648, 13127561, 57193, 2159266, 2520137, 11732, 5004393, 2759037, 49297, 10016982, 14581610, 18586
     , 2113064, 6943871, 17799, 371863, 4269052, 4687, 7175527, 3601581, 15289, 15732728, 5570260, 13065
     , 16322223, 6619206, 49870, 16375485, 4678356, 31737, 7207811, 1518168, 11923, 1129878, 6316724, 15482
     , 8326547, 235284, 24027, 8622132, 5861318, 2275, 6527994, 6815591, 14158, 8946226, 1843481, 6402
     , 13983482, 6096125, 47, 14793379, 13033593, 1460, 7653452, 9348013, 58727, 5810045, 16220778, 7234
     , 13302477, 6720466, 57428, 14951964, 6869997, 9078, 11451186, 6972276, 60916, 13569780, 9197873, 12780
     , 5986341, 3052995, 38236, 2463235, 11594344, 10200, 8199872, 9924162, 47016, 5422355, 12959857, 27500
     , 11683021, 9374880, 984, 16701591, 11442828, 28, 9676797, 11772406, 43076, 12446870, 10144634, 26476
     , 13483315, 7067104, 25371, 14539192, 9034764, 10738, 16461567, 13989174, 2375, 4108377, 13526286, 7858
     , 9171973, 11772942, 8505, 16035469, 15596345, 16741, 7394982, 15574650, 57441, 9471222, 12595852, 11836
     , 5637695, 3317456, 7928, 15250389, 118345, 27981, 5690187, 13184790, 272, 535008, 1854999, 28077
     , 11827134, 5686672, 22604, 2484533, 6228693, 22910, 12047213, 2510222, 24584, 10257054, 6771865, 16216
     , 5532189, 11050485, 15742, 4146020, 5209498, 16757, 16284071, 9863726, 15111, 2500722, 7837080, 6834
     , 15694115, 13234363, 56375, 3514519, 13113580, 9582, 14506054, 14310409, 19058, 13292636, 7102957, 20959
     , 6088729, 5230031, 44786, 15108593, 12293530, 2982, 8075934, 12412325, 58983, 9080394, 13996450, 29183
     , 11008735, 2488915, 1731, 3002131, 15898731, 26215, 2755044, 5351125, 16119, 12109642, 1065536, 20858
     , 8487925, 14548364, 53388, 8472561, 8177435, 22819, 3758387, 5230984, 65529, 1109863, 13392173, 21386
     , 15788829, 13514863, 44113, 12975717, 2851092, 27092, 12576953, 14301589, 41342, 369473, 14258143, 24006
     , 15253112, 5060444, 62000, 12878794, 8724972, 12725, 8397354, 14160903, 1234, 15570377, 9120739, 15809
     , 14093611, 1456626, 42126, 997584, 5547708, 20477, 11998267, 12999590, 35555, 7928477, 11804561, 18478
     , 11357981, 9129607, 9227, 5892928, 3293696, 28037, 2576690, 16219716, 49461, 11199305, 485901, 25185
     , 4355676, 7068472, 13617, 9174418, 6666810, 9313, 1538677, 7818197, 7213, 4711350, 3119382, 1114
     , 4616616, 5841753, 60731, 13454773, 16439898, 1300, 10548495, 8373080, 59433, 9775761, 12246258, 31954
     , 10142310, 5320938, 3492, 1362297, 13909022, 9888, 9675664, 12003838, 47970, 16153803, 5746679, 13827
     , 8149480, 8609052, 15060, 16402187, 11533702, 22285, 10730902, 12478863, 55236, 14118908, 12446762, 6116
     , 14146641, 5155306, 17358, 4870542, 8052950, 22714, 6817109, 13401700, 57364, 2502840, 13194190, 939
     , 10075735, 6425719, 41752, 5089618, 9413352, 11045, 3878909, 16631046, 56712, 3843414, 1955738, 5943
     , 9966233, 8615288, 37499, 9481005, 5378077, 21829, 15027152, 401804, 46163, 14377525, 10184191, 22800
     , 8430869, 14730401, 34403, 6685940, 8381468, 16710, 12007544, 1746140, 44588, 12612887, 13304518, 6611
     , 6768113, 8165354, 43540, 13288508, 13048369, 28890, 16285178, 4113002, 47393, 949029, 2681334, 26610
     , 9303007, 10194167, 49077, 2453411, 7836324, 13928, 1537348, 6037283, 57790, 4922512, 10361700, 30826
     , 13270875, 16020371, 16754, 11201369, 6010040, 25262, 6495087, 12857850, 48345, 13225069, 2142957, 8126
     , 974981, 8560572, 24541, 12967257, 13833645, 9245, 16243638, 8967717, 46262, 12505812, 8584933, 22874
     , 1148941, 3858636, 26981, 4206454, 8781564, 11166, 7801473, 9811207, 47908, 11749169, 808799, 1490
     , 4741810, 6435894, 40350, 15990459, 2791013, 9985, 12603383, 16708740, 22636, 15384510, 8785088, 17573
     , 5451392, 15131379, 28607, 3285246, 15383215, 1451, 8427128, 2224843, 7149, 15400658, 2167479, 10918
     , 1054987, 8617206, 58008, 9525496, 16497903, 7880, 16346987, 10173092, 7934, 9113331, 8661510, 27195
     , 16263159, 4947159, 37597, 16587927, 7715827, 24657, 2059672, 11944348, 5019, 9286416, 11725207, 14906
     , 14015755, 5849545, 50633, 11713760, 13066277, 13510, 12288294, 1137225, 3396, 14349849, 13363985, 30242
     , 5174701, 16749334, 30811, 6075485, 6585653, 29073, 13528668, 2448460, 4479, 10137150, 4492046, 22555
     , 2249748, 15977270, 21668, 12338821, 8439097, 30977, 13023599, 4211639, 18182, 2883851, 13589306, 17356
     , 4994865, 15970241, 7675, 5711220, 9384341, 7222, 461658, 3068853, 188, 11763552, 14212451, 818
     , 10213616, 11636876, 1860, 11319758, 9331341, 11557, 12983828, 11845049, 48037, 3467670, 1190234, 3018
     , 2192852, 8701551, 1436, 9485944, 15549319, 6715, 11253168, 5199741, 57145, 3945444, 7857723, 12359
     , 2906730, 10309608, 22946, 9336740, 2216424, 29412, 3221849, 2294547, 27110, 15907768, 3845516, 11680
     , 15511734, 14180495, 10328, 148390, 10086308, 13360, 10129251, 11957714, 47657, 15816838, 2663670, 15648
     , 294154, 14865030, 61544, 7802400, 10181996, 5273, 8772217, 4872483, 53639, 5905625, 11883201, 30894
     , 15319150, 13421603, 18477, 4937541, 10592181, 31512, 10123782, 9006846, 876, 8854547, 2941137, 12076
     , 5542599, 10198742, 15149, 1691767, 13100296, 1609, 6677451, 6744699, 52651, 11202623, 5980356, 18865
    >>
\* each word of DOUBLE_SCALAR_TABLE as bits 0..23, 24..47 and 48..63
DOUBLE_SCALAR_TABLE ==
    << 255537, 3470247, 57738, 5253983, 6340381, 10356, 16319315, 6485988, 57390, 8826078, 10499979, 3131
     , 9666268, 1022128, 37055, 15779157, 8157220, 29707, 10490726, 2330915, 45857, 9787301, 16103738, 20476
     , 14303931, 16567211, 10618, 7116742, 13711189, 22856, 3172428, 10107187, 43032, 3415847, 2847242, 3247
     , 13592772, 5681499, 35111, 10823354, 16219288, 22338, 16293787, 5905897, 13322, 7721207, 6818542, 5359
     , 4432927, 7397696, 34023, 12795029, 12849430, 530, 5095650, 9561822, 13751, 9264424, 14616657, 22857
     , 15536347, 1181508, 27150, 4428243, 8638084, 23121, 16628304, 9115018, 28513, 925832, 228935, 11490
     , 6601276, 16389274, 8009, 6751313, 7787801, 24472, 5593195, 329071, 769, 9426726, 1725821, 527
     , 7177928, 11630000, 57164, 15041424, 12369535, 26959, 6953831, 2706037, 31027, 5830892, 15307339, 2523
     , 15833014, 4457421, 22799, 7998375, 9871304, 7175, 2433895, 4683538, 50326, 15839382, 9920546, 21768
     , 3020661, 3546693, 61402, 13121787, 838828, 31242, 15064159, 7937035, 45182, 13355923, 11973656, 9433
     , 1146371, 7402438, 18809, 9885077, 10574027, 14726, 9593131, 5795046, 36736, 5110230, 11524734, 12380
     , 5411146, 12771428, 49569, 5779577, 9027819, 32505, 6598809, 5971827, 14966, 2727019, 2321752, 20462
     , 951321, 614263, 28545, 9878537, 14183283, 21435, 2834960, 12218987, 11122, 116619, 14294313, 25181
     , 13445950, 12352280, 4085, 5821234, 5868659, 1366, 16732375, 2383648, 2449, 1681790, 5826025, 3711
     , 7702358, 6371131, 23045, 8133002, 12358648, 25671, 5010720, 394435, 63779, 6036474, 4465991, 27425
     , 8361111, 15084906, 59709, 16009532, 4562310, 8489, 6606820, 9750468, 17763, 16032179, 3473091, 24868
     , 4350451, 2022900, 7897, 14722047, 3691769, 3181, 11003107, 1388936, 54269, 1478924, 2080202, 9321
     , 6446237, 4611287, 48791, 16210420, 1889139, 10918, 2545195, 5727139, 33357, 14295226, 14917200, 6666
     , 14992313, 13125662, 13008, 14489798, 8851612, 27702, 12555738, 1512495, 58663, 2943430, 10756021, 26559
     , 10490996, 14065800, 20004, 16475686, 13241059, 18854, 203038, 9415313, 54911, 7155810, 8975786, 26440
     , 15227545, 3679426, 19367, 3519252, 3133837, 16491, 7506625, 8068074, 42760, 8066574, 15868465, 4562
     , 2335849, 7209086, 63636, 13513122, 9894587, 8865, 1185466, 15604700, 21257, 2597668, 15308088, 9231
     , 11449799, 12098403, 63996, 1487280, 8473069, 24635, 13591035, 8875010, 45553, 3118219, 3321697, 19038
     , 10127379, 1764838, 64585, 15022757, 3641654, 6873, 15122723, 897493, 23973, 2888394, 1374206, 12096
     , 8766453, 7937398, 58614, 7625371, 8724931, 19489, 5595031, 2207640, 3077, 13294203, 10561875, 5218
     , 4533275, 11232214, 2994, 10009479, 12923372, 22403, 6143132, 15684448, 29565, 15230745, 8567088, 18937
     , 5378531, 6787275, 30129, 12249502, 6649037, 17837, 15505489, 12004862, 4194, 4623496, 10095052, 17666
     , 15966706, 4251255, 21282, 10146026, 2694826, 6077, 16294048, 14151618, 57506, 2193294, 1180960, 14964
     , 13406431, 11573098, 45279, 10990067, 243337, 32726, 54982, 5741771, 4434, 1591715, 7617379, 25408
     , 842241, 4663566, 60330, 4189963, 6661845, 5170, 8513370, 6123481, 17714, 5795626, 8440889, 3735
     , 8792285, 9248890, 42230, 9693249, 3192088, 20690, 11863222, 7772747, 62397, 6891822, 6030905, 21911
     , 12088687, 8102495, 1906, 14103037, 8834958, 2047, 3514864, 16400588, 61271, 4331772, 3829895, 28789
     , 2856764, 5562932, 24921, 5889926, 14061338, 23209, 14959720, 10395637, 15246, 671011, 9508054, 11892
     , 7789387, 12132033, 5281, 10137197, 1729494, 22009, 1797415, 8532603, 62499, 11315965, 2049887, 10959
     , 11897192, 6927481, 64912, 10772343, 16049604, 15274, 8039094, 10140042, 41644, 16058753, 13324312, 21606
     , 12202501, 10647409, 15979, 1817572, 9489898, 12778, 5600147, 4287324, 0, 5311869, 11551066, 17996
     , 16722879, 8901126, 53280, 11265846, 9358719, 11164, 13282061, 7157826, 45749, 7798951, 10532726, 1134
     , 3240720, 8030366, 4410, 16240842, 10704062, 22930, 231613, 11095765, 16093, 8622420, 6420327, 1318
     , 10365152, 15595233, 19496, 16139493, 12776146, 7449, 3517245, 2181339, 23923, 3506421, 4658360, 26636
     , 8441068, 15893179, 41844, 8053020, 6331335, 30878, 10175986, 5733721, 4306, 7807409, 9132933, 7252
     , 5521375, 10954420, 31662, 1789650, 6459693, 15381, 15212674, 2229175, 54838, 13084928, 15016915, 5140
     , 1909673, 4822300, 31907, 15208372, 2514492, 19876, 11136822, 15449260, 31105, 12556299, 13231541, 20154
     , 10270116, 12705012, 43986, 12989455, 11336741, 16212, 13704381, 15727291, 8238, 6905484, 7044275, 26401
     , 4180465, 12384690, 65404, 16415483, 15458295, 12011, 1177694, 7073697, 28949, 2265132, 14257653, 7055
     , 5347217, 15445346, 27432, 121069, 15373838, 27888, 6907861, 8110592, 46177, 4059309, 10511819, 12861
     , 14831004, 8193857, 12648, 10124482, 9382736, 731, 3278119, 16275748, 37443, 7236907, 6352925, 26819
     , 13971562, 12970103, 9041, 12972969, 13433989, 28502, 12882575, 6629431, 6921, 8649073, 3626316, 2867
     , 13075436, 1827532, 58003, 575055, 9868474, 18050, 14861996, 14902104, 40757, 53616, 11744176, 5236
     , 13198912, 9598319, 9431, 8817758, 14327791, 24975, 16618357, 5968474, 47103, 4244056, 14253572, 30605
     , 2201127, 3229830, 64511, 11003921, 14803426, 13335, 8092636, 5875855, 8681, 3966578, 12774284, 13576
     , 1852175, 13491729, 33406, 8036660, 11640752, 8636, 3102534, 16404651, 57537, 6707450, 6818638, 16414
     , 3576780, 4959025, 11458, 6571130, 1839801, 8276, 8504268, 7714555, 14153, 5117943, 6224692, 21136
     , 9133982, 13219181, 31173, 12166124, 12547538, 13200, 6026468, 8420745, 32499, 289617, 1464898, 10260
     , 7332184, 16582962, 32652, 9921260, 16469836, 12850, 1658149, 14080716, 22136, 7685608, 11533066, 28540
     , 4094307, 1456050, 48536, 9047797, 8092856, 26909, 403732, 3250914, 4282, 9807963, 1331074, 1787
     , 16134031, 2135915, 32998, 7591604, 5861868, 10818, 13699868, 11134785, 32778, 10503835, 8227793, 8973
     , 9305740, 13514562, 26026, 5813863, 11872639, 4042, 3864504, 9774740, 53006, 13949671, 9526133, 32144
     , 2465131, 10772822, 29781, 13427125, 12608372, 10684, 8892157, 971690, 62203, 5561688, 438030, 8474
     , 4057532, 9815410, 27660, 36007, 11988261, 25241, 5110552, 4094029, 32726, 12704560, 3886491, 11465
     , 6099946, 14865484, 60359, 4002208, 14781773, 12920, 2187129, 4051546, 13470, 3162477, 10949899, 32434
     , 10523851, 14145014, 1523, 3347461, 7459982, 10807, 9891849, 3795420, 2287, 3557778, 4732730, 290
     , 16600371, 16330697, 63320, 13879916, 14206687, 9017, 2519988, 615830, 35584, 10326100, 16006841, 29807
     , 4337407, 14419274, 18412, 8093452, 16238630, 13272, 1721006, 44178, 8958, 16570598, 8338737, 12773
     , 12912745, 2299297, 48017, 8305583, 13480186, 19144, 9912031, 14109280, 1345, 11716055, 9438004, 29236
     , 11401779, 4585264, 62181, 11906198, 4515389, 8782, 7331513, 3997788, 64698, 10041013, 10806869, 11411
     , 8968024, 10540973, 30503, 7445725, 1049110, 11827, 2884180, 16292587, 31534, 5812148, 15054663, 8045
     , 5223201, 9455377, 27368, 13031437, 6199918, 15712, 11039960, 1427239, 6377, 13668655, 8959465, 27024
     , 356112, 4481422, 44947, 4579507, 6938498, 7057, 16042129, 12795248, 24248, 2823107, 14547746, 5641
     , 11757293, 13141457, 33073, 11642800, 13606300, 31683, 13187432, 4689199, 53911, 5154805, 11818810, 5067
     , 13998187, 11914340, 56631, 1750492, 13752280, 32467, 9911454, 4742947, 44115, 3903959, 6774067, 1797
     , 3245761, 13767620, 44517, 12574484, 14636980, 27275, 7436643, 8954334, 43135, 1686754, 9576629, 6130
     , 9815568, 14154511, 31474, 1329788, 13865531, 10449, 2626529, 12834967, 36467, 3044033, 737478, 16
     , 2052314, 8028666, 34014, 10322500, 9557592, 20387, 3453573, 5861128, 48323, 2419150, 13358602, 19786
     , 8608269, 10008769, 38906, 9444619, 13602345, 13227, 11784322, 4004213, 24743, 6001805, 6988850, 24678
     , 2640441, 11384681, 44372, 6331176, 10014995, 8826, 6961266, 2096302, 18974, 8356236, 14961622, 7758
     , 8901397, 13024067, 23156, 11634581, 2670769, 404, 12300373, 5497456, 23745, 14436961, 11263744, 11068
     , 9587543, 1097766, 33601, 14283287, 15304178, 11568, 3377653, 6912307, 18193, 2106391, 16607768, 21475
     , 3037284, 3987356, 45369, 1126018, 2700772, 22745, 3169133, 10125000, 34456, 2683770, 16666350, 17064
     , 5839105, 1240833, 29922, 9941433, 9533955, 12919, 6845764, 12480061, 31676, 634806, 5730333, 2953
     , 5256808, 13168244, 27899, 10453832, 9591514, 18601, 2953038, 5723066, 22276, 2243942, 13252710, 32105
     , 1517343, 5038633, 50949, 3887582, 14803219, 16828, 2016094, 14953976, 14906, 13925571, 14290754, 32426
     , 9066444, 3731716, 5041, 9525903, 9092478, 25849, 10536754, 9825046, 31473, 14038226, 8497041, 4542
     , 1008056, 14632771, 38872, 2560004, 13087617, 1895, 9702054, 9516795, 16020, 9792954, 14893261, 15326
     , 1910274, 15486969, 45648, 8346075, 2381012, 19678, 14252235, 7640368, 44894, 13948981, 3088665, 23182
     , 476383, 11879002, 57116, 3526741, 567231, 15675, 14971292, 6193965, 50739, 1396034, 14253577, 28344
     , 13766105, 4165091, 12138, 6435802, 3996967, 5106, 1025052, 12062204, 46246, 13621207, 7749690, 22744
     , 9311131, 2230155, 10964, 11487565, 15608507, 29659, 15508424, 7702673, 2466, 9111864, 11137303, 28409
     , 12990426, 10406800, 64638, 727676, 3432385, 14852, 16383775, 15321954, 49188, 11154392, 10238628, 27727
     , 5947888, 6919609, 1181, 7748123, 8671637, 8771, 705142, 6959472, 41286, 3299589, 11997754, 24591
     , 13851172, 1729696, 40249, 4321544, 3888390, 15113, 3023391, 14572541, 8821, 6544158, 15156825, 9717
     , 15203204, 67575, 15906, 12081806, 10632129, 28422, 15404616, 9247222, 46105, 13918170, 1532378, 24001
     , 11872781, 4081962, 47664, 11138344, 6932285, 4732, 13078718, 11996406, 54181, 1694300, 11584776, 3442
     , 12766711, 9492014, 6463, 16018863, 13684676, 26615, 15958250, 539986, 31468, 2670413, 1956426, 31754
     , 576423, 2162272, 18173, 1430933, 9212225, 31320, 16015224, 13884140, 36785, 15183926, 14336148, 2129
     , 3319954, 10972714, 51936, 14539567, 8786722, 4175, 2068486, 8512622, 47005, 4819218, 2676642, 7757
     , 4950463, 7721879, 44849, 10245570, 63910, 24893, 6627951, 8928910, 9206, 7204613, 8312412, 1839
     , 3727939, 15090619, 26256, 1612565, 12888009, 6785, 4671918, 13723294, 4182, 9378060, 15902529, 311
     , 6921494, 9599342, 60721, 3711868, 7189596, 16087, 11043395, 7148661, 30952, 9810286, 5942468, 17816
     , 9375792, 13115534, 18389, 13690754, 6252724, 28094, 16249451, 13637676, 2259, 3124669, 7720471, 25795
     , 796789, 7189410, 47631, 2363984, 14223955, 22497, 16311870, 4407261, 789, 8236443, 4673763, 13108
     , 6926358, 862382, 25292, 54599, 15208289, 17247, 10305013, 11446374, 22644, 6608041, 9518978, 15254
     , 1250480, 6805179, 29568, 7294159, 13575372, 18636, 12023727, 2866536, 28510, 6511974, 12811177, 13506
     , 16629339, 5458176, 55089, 14753091, 10327983, 20047, 1799127, 1184821, 33204, 1156526, 13697197, 7496
     , 14856529, 15164968, 10830, 7860152, 3051544, 13456, 13915028, 5642767, 46504, 13458112, 8058581, 17457
     , 428973, 2386409, 13644, 13291554, 16656225, 1905, 2953003, 7268385, 64935, 4412565, 15648468, 30413
     , 15214077, 8746419, 21961, 14105115, 3301077, 10627, 16017127, 5001139, 22076, 3378096, 1025043, 29467
     , 10506816, 1690199, 57013, 5206865, 9476956, 31358, 2798222, 12669917, 61367, 15610035, 1869405, 4554
     , 10321377, 11023501, 316, 15257498, 776942, 22366, 8630143, 10002960, 17996, 2174691, 14473308, 26685
     , 13639705, 15772492, 4465, 5072072, 14687359, 8903, 3026643, 12644159, 38702, 1722220, 8634977, 25151
     , 11150753, 15821801, 39347, 10030603, 12342376, 11582, 10802674, 12223814, 23903, 2721507, 15110557, 18198
     , 4152684, 15907864, 15026, 840894, 5755793, 24418, 16338731, 7285368, 13340, 5268725, 3738506, 28392
     , 3975399, 4241848, 40326, 6733373, 5952068, 828, 916825, 14060979, 28524, 9499638, 7019535, 21162
     , 4208198, 13454487, 65147, 11558832, 4180320, 4523, 5805786, 4945751, 9304, 2990391, 9300883, 17023
     , 5441264, 2673488, 37514, 6521358, 9531368, 1198, 12176703, 11110673, 43706, 5083461, 8960665, 23013
     , 15638175, 1768126, 39823, 7798670, 13102900, 1279, 3649862, 5492377, 59855, 5391432, 4368385, 29694
     , 12298925, 14302451, 8779, 9995428, 5265109, 24488, 4551275, 15389827, 36462, 1521362, 603860, 2339
     , 11365351, 15423697, 59001, 728751, 7707475, 2235, 6349387, 15422072, 38536, 10154616, 5057967, 4976
     , 9465620, 3852059, 55591, 4251317, 392125, 22510, 10379755, 9312698, 46968, 6133401, 11983900, 31079
     , 75712, 4455459, 14048, 2970012, 6658235, 10865, 5053191, 11699213, 49175, 7694911, 16402591, 7483
     , 3247414, 3850020, 19159, 1204829, 15136062, 6421, 16289924, 10996033, 45593, 4678396, 555663, 8832
     , 13743335, 8402015, 36530, 7535993, 13954647, 21944, 2941665, 3831934, 51686, 11090053, 4304317, 26711
     , 10728593, 3189521, 65464, 3499048, 1122809, 32393, 6459512, 15345434, 49210, 665145, 5845651, 29124
     , 16258965, 1649259, 59359, 3845617, 15634200, 28746, 8020951, 11885194, 1757, 15926076, 7178083, 21077
     , 799655, 4557935, 46955, 6469978, 7047107, 10342, 12745627, 15037860, 13914, 6467069, 3477765, 14063
     , 2619847, 6150361, 35221, 5794974, 7896426, 21102, 16353473, 771311, 30254, 11422022, 2340021, 27797
     , 13625695, 9475720, 59658, 16756131, 8243379, 25994, 5788175, 4766330, 48865, 7590351, 32133, 26649
     , 1829317, 11922452, 30163, 5192743, 3583587, 19394, 3205268, 16423819, 4498, 601279, 13909533, 16681
     , 12315205, 427352, 64684, 1140020, 9275320, 20798, 5631188, 10582433, 21367, 4544303, 5447253, 27795
     , 10136977, 16260000, 29309, 13197904, 7420379, 1874, 12195626, 2142680, 5379, 10584219, 15228768, 8833
     , 15443631, 12047652, 29028, 15355048, 8853055, 20691, 11452024, 14777698, 59661, 12599565, 6928936, 27315
     , 9818424, 8270170, 6096, 5504765, 9844004, 22708, 1055634, 318396, 47226, 8297230, 15793013, 16552
     , 7234769, 11831913, 8520, 792535, 4864565, 19968, 7034430, 8298296, 6034, 14934981, 10277953, 10714
     , 4289043, 2999127, 34877, 8791620, 6635511, 11924, 4537841, 8058184, 21411, 47419, 6140867, 1095
     , 6189572, 16403841, 11621, 2899149, 2996044, 8986, 5085133, 3457231, 8151, 16175394, 5619973, 13010
     , 15402928, 16617985, 47988, 11300704, 4136065, 4835, 11104370, 6568382, 64410, 13487041, 4947385, 21217
     , 14906571, 12691738, 25466, 14451236, 2278234, 7302, 4947251, 7098534, 60280, 2775187, 2336547, 13864
     , 9258794, 11520616, 61997, 3667908, 9375234, 6233, 16039153, 4815871, 38840, 10247039, 5026426, 31423
     , 4036051, 12865083, 59975, 8550979, 9429985, 22642, 16319176, 6822509, 32723, 1302137, 14400964, 28081
     , 12779647, 16772378, 48206, 8944811, 10831684, 32561, 13783450, 10178443, 58965, 12730843, 9356720, 6311
     , 6103088, 165297, 63201, 10129396, 2353697, 23571, 1141575, 7282909, 4939, 10061619, 12442568, 23818
     , 188753, 9671559, 41929, 16166237, 11449492, 2742, 1578470, 11845338, 36083, 9187292, 14885632, 21612
     , 9289273, 11904679, 41230, 4554148, 15247544, 9938, 1562630, 13361941, 620, 3102252, 1526657, 10805
     , 8009549, 301533, 22487, 13878757, 16339372, 13160, 67116, 2430457, 18699, 1426295, 649155, 12641
     , 9778639, 965206, 13026, 6805257, 9189846, 18794, 5070351, 617924, 21880, 3736496, 1453287, 24714
     , 11762859, 6653228, 27438, 14027177, 10104430, 30128, 6300757, 4927618, 31432, 15223700, 13350292, 30352
     , 1668091, 14342481, 64645, 9438928, 7647372, 29578, 13994046, 4180281, 33571, 11782644, 12618589, 32703
     , 6256457, 14980091, 33184, 10123201, 6223846, 11301, 13395311, 189961, 9039, 2047212, 13568918, 22880
     , 11661690, 9699895, 44146, 13911724, 231977, 17230, 14201030, 593408, 51818, 1984318, 11346944, 7962
     , 3381758, 11983891, 28004, 14501383, 12206569, 2201, 12318175, 737061, 51801, 14208529, 7960752, 22305
     , 7203244, 13308890, 54964, 6616925, 5377269, 15496, 10974591, 12406901, 25759, 15147361, 9681167, 16165
     , 14469544, 15023761, 57790, 13060754, 6937828, 256, 11175260, 9865592, 61315, 11877747, 8683907, 27864
     , 14943211, 16094736, 2877, 1575551, 2479174, 28978, 9982178, 1125573, 52259, 10711820, 9877104, 4183
     , 3122383, 16051322, 41287, 7713363, 2033453, 13018, 8779104, 476510, 20080, 2088288, 3631735, 30373
     , 13015543, 5221340, 18411, 13036950, 14377780, 20037, 7492719, 7285675, 13830, 4115948, 8414553, 1268
     , 12277249, 162111, 16364, 6595878, 7627371, 4655, 3886525, 16150520, 8656, 6586140, 6360798, 4976
     , 8483529, 2245304, 22456, 12999390, 13348349, 21117, 6067189, 10093624, 24220, 5540460, 13606482, 25809
     , 6670740, 7549816, 47616, 12375573, 14765648, 25406, 2429077, 2264772, 63552, 10023053, 9863466, 18875
     , 16344696, 8193058, 33525, 15196385, 14957567, 1751, 2812003, 838261, 13201, 556600, 7240806, 1236
     , 7346115, 3523606, 61769, 248236, 14873677, 16162, 13459812, 6440178, 42521, 5219547, 11849297, 5538
     , 12308676, 10505290, 20881, 13148573, 3367148, 3702, 10908608, 8634756, 65269, 7615463, 15927932, 30146
     , 13090969, 10835271, 59719, 7240323, 8053839, 9308, 12501716, 6748646, 26534, 6576840, 12133114, 24032
     , 12004898, 4082268, 56731, 11385486, 12765271, 313, 3850801, 11964038, 43006, 15478176, 8515464, 20499
     , 15993601, 13018224, 45752, 3551330, 6667704, 1309, 14046996, 267430, 19689, 1695500, 741981, 7761
     , 3624182, 7487325, 22174, 16638448, 195896, 19454, 1022626, 5893061, 44660, 14671410, 2929008, 3966
     , 7604171, 10629738, 15421, 16586818, 5285983, 3324, 8766408, 3459166, 25259, 11760435, 14246987, 8884
     , 8138136, 1291224, 22483, 4789055, 2890938, 20291, 12516364, 13705124, 24931, 14545198, 5116463, 6841
     , 16549288, 9656494, 64380, 14240177, 429953, 23328, 4573200, 14090017, 53134, 9645312, 11517985, 22420
     , 7222741, 8891803, 23689, 16621630, 16037942, 27569, 4104663, 2092362, 31055, 11593663, 13707486, 3318
     , 8883445, 4070501, 21740, 10625038, 1144379, 40, 15170417, 9531473, 14381, 3841663, 834817, 18912
     , 13566364, 7793060, 52469, 7353146, 6695033, 19274, 15596575, 1476885, 63346, 4691589, 11922598, 10126
     , 4312838, 13154767, 35477, 7158235, 13223810, 28248, 15924853, 1153161, 18318, 12425428, 13769105, 29676
     , 12293378, 5373599, 9959, 6499989, 5992880, 10626, 9156037, 9410287, 8550, 13213700, 9018963, 12074
     , 3431656, 2698964, 10243, 13000172, 1070535, 29299, 7334309, 13278283, 15018, 9164401, 13881050, 25128
     , 12881583, 2907903, 30526, 15375049, 11640335, 378, 13162342, 14746774, 38409, 181007, 9042355, 4638
     , 15295616, 13634059, 20103, 11131819, 9246475, 2493, 13454930, 7312510, 50805, 13438811, 4242364, 11422
     , 16613678, 12023401, 17061, 527774, 11098171, 26283, 7239617, 14653905, 61013, 16721161, 810078, 19648
     , 12042603, 14017034, 35972, 5242619, 6067736, 174, 14479188, 15270726, 45717, 14433138, 14289465, 23835
     , 10182386, 2978472, 30201, 16362510, 10063007, 9629, 12858305, 16478886, 35356, 14054916, 12000585, 9205
     , 5202671, 9384081, 18317, 1633449, 6361938, 2302, 4754506, 13540294, 19874, 2637358, 15400245, 5617
     , 4385295, 12467900, 49874, 7268610, 1463197, 10834, 12447410, 9458407, 41449, 7874828, 2503148, 14991
     , 12566500, 1615918, 46869, 7257564, 422340, 9328, 2236277, 2971930, 28405, 10911122, 6376886, 18324
     , 12236295, 6065892, 30239, 6403541, 14520099, 12761, 14367529, 5848040, 6725, 1139296, 12805611, 32518
     , 3061339, 5924581, 40240, 4107288, 16561505, 24284, 4905845, 16590869, 61236, 12179266, 8410963, 30991
     , 14661527, 5947989, 28365, 10127579, 1366877, 3262, 8475944, 7102202, 49608, 5888135, 6370234, 11363
     , 16065175, 4375257, 51037, 14871507, 5508129, 19411, 14575875, 13498256, 13031, 13886218, 3971127, 6830
     , 4419337, 2679965, 61136, 15723804, 14754641, 30618, 9934757, 4544637, 28161, 10109051, 7228654, 9493
     , 12939545, 14167850, 44079, 1584850, 159517, 32652, 2364945, 888755, 60108, 14111834, 14378450, 22888
     , 1187262, 5785265, 32082, 211407, 10475448, 22420, 11955201, 15318729, 18207, 2526970, 22513, 23591
     , 4154734, 2384648, 52745, 8793337, 2366684, 5864, 439058, 2866346, 47051, 8795158, 9661400, 15397
     , 4864039, 13276780, 6584, 2221630, 3911165, 6884, 10923114, 11157, 7677, 10021271, 14843757, 18184
     , 3255421, 6496988, 46589, 7198032, 16046497, 21434, 6526476, 10676820, 602, 13608271, 3393443, 23387
     , 15297424, 8881774, 56226, 10935375, 12710899, 18248, 791883, 15467944, 9011, 10091414, 7626075, 19015
     , 7261677, 5965354, 17557, 1438064, 16706192, 30609, 3130202, 16122833, 29547, 3702822, 11386021, 9778
     , 6913103, 4999393, 38254, 58157, 11402886, 20201, 10839046, 272909, 42372, 4551507, 14152895, 13475
     , 1535915, 13958656, 36175, 9707342, 2025557, 5426, 15941796, 126849, 26375, 15535016, 8151434, 3197
     , 12573142, 3224025, 29480, 1813605, 5913059, 13459, 15251857, 16497834, 18028, 4688582, 13979160, 9485
     , 4251215, 4637982, 26014, 12914180, 10491134, 24974, 755580, 14189320, 65124, 8963319, 11254630, 22316
     , 8601926, 1526074, 41672, 3637536, 7555190, 1741, 3582025, 749939, 58334, 14373828, 3101073, 13972
     , 12537224, 11400810, 41977, 8911510, 1330048, 10906, 9067343, 16710839, 65097, 9604011, 689686, 7140
     , 2226090, 104277, 1961, 6894864, 7251587, 8134, 4339726, 33978, 19903, 1623863, 4494777, 7991
     , 8429578, 6903459, 47156, 13478407, 16021103, 4934, 6492865, 5671380, 46299, 14422806, 8335988, 30558
     , 2310592, 8923379, 1929, 4097759, 9478971, 5187, 15320548, 6311137, 28860, 2230387, 5430784, 4726
     , 16059717, 12347037, 10356, 90612, 4556053, 9071, 8525026, 5242161, 15354, 366405, 2777445, 31945
     , 980778, 954889, 12206, 5229627, 7067036, 9831, 13751367, 199028, 8716, 8816359, 5801961, 26181
     , 7736796, 12117208, 16740, 1043299, 11038596, 21783, 7457502, 2911379, 55732, 12673209, 249580, 14975
     , 11417196, 8836684, 56640, 8660275, 9487143, 7010, 10545195, 16568999, 5198, 1102622, 1648074, 5730
     , 14813425, 13709592, 43484, 11650382, 16350940, 23184, 7642521, 7549384, 32964, 11012949, 1717609, 28422
     , 2758085, 12542366, 3946, 2246132, 7116818, 10512, 13218943, 11602309, 22624, 1438736, 10106782, 20279
     , 9311864, 16014838, 11734, 10168380, 5334957, 11335, 2779706, 11141269, 9143, 807781, 12330660, 21810
     , 9883170, 11058741, 42432, 15705455, 1211034, 20387, 7595647, 8665769, 37966, 15235156, 2610266, 15479
     , 1146532, 2942581, 18682, 3914652, 9307309, 31690, 7309541, 3794034, 54644, 3875462, 13870752, 13111
     , 22867, 1517826, 45238, 15122593, 14116660, 20811, 14141108, 8991982, 63871, 15841118, 1298151, 2750
     , 939175, 1079826, 27784, 7213535, 9858426, 25423, 12140695, 12923145, 20548, 2275130, 10470997, 26836
     , 4474470, 9817484, 27106, 10068516, 5005273, 21548, 6137711, 8995211, 5119, 8907956, 16414826, 28979
     , 6554292, 599621, 12056, 1854924, 11380627, 21213, 13047184, 860464, 28335, 2299942, 12755692, 334
     , 11750870, 11932739, 44037, 1618457, 13367985, 5498, 13635737, 16037962, 58594, 10096312, 4869538, 2751
     , 10398495, 2852277, 24453, 6842861, 5882994, 7122, 7932437, 6132359, 52822, 16091648, 8667836, 6052
     , 8468027, 1659427, 485, 893050, 13662833, 9014, 7425202, 15924188, 53227, 2341033, 5326668, 12154
     , 14905708, 2754516, 30683, 10524678, 14209744, 16616, 4201188, 6540909, 25667, 94973, 13295687, 21497
     , 14343251, 7261581, 22745, 14079638, 8520947, 5378, 4431074, 10523156, 28480, 7093846, 5468451, 29580
     , 9173500, 8316834, 25848, 8458222, 10044570, 20248, 2220918, 9827519, 53418, 3692220, 13378600, 24944
     , 6618997, 4794327, 40444, 10674194, 10573375, 8830, 2941063, 3564898, 44509, 10823774, 3926535, 18237
     , 2821810, 8842765, 49337, 14489837, 8701760, 30949, 5231880, 12529824, 54701, 10218939, 15555253, 7274
     , 14375841, 6278333, 9680, 9003801, 16476991, 19032, 8471802, 6505469, 56111, 5965797, 4578925, 18084
     , 15327706, 419919, 63098, 11623583, 5331235, 22450, 666124, 10043522, 20547, 318133, 12169839, 25332
     , 1770301, 10879440, 59294, 1114107, 12982127, 155, 8311706, 16723856, 13115, 7197696, 695906, 9533
     , 12513386, 12508412, 31387, 3748909, 6978139, 11547, 2411674, 11821729, 47839, 12672176, 14589314, 11916
     , 15839905, 8502486, 31807, 479892, 757668, 1227, 13357828, 13884216, 64054, 8926547, 16331842, 23038
     , 12137518, 2782236, 37272, 11540866, 6532119, 31645, 2703054, 5161562, 21259, 10547364, 6925727, 24848
     , 5679005, 2775478, 31270, 13637040, 16315606, 28646, 6114896, 14115866, 11311, 9212188, 12912389, 9392
     , 16663982, 8578194, 33608, 4400993, 11541267, 26832, 1543052, 11186068, 3756, 7175425, 3838720, 4670
     , 8385340, 16673079, 60658, 546891, 6335300, 20425, 14964308, 4479774, 10972, 13671059, 6823121, 18825
     , 15328182, 9804207, 31056, 8789013, 16498414, 32623, 3742501, 8757206, 11986, 11971879, 13968009, 24203
     , 13532281, 2624219, 51529, 15781204, 10086501, 20745, 8206139, 7541966, 32661, 11570930, 959674, 19244
     , 370907, 12618588, 11644, 5273239, 10545699, 17929, 2905528, 12203288, 57860, 15688166, 5833725, 24141
     , 2513291, 8662824, 65123, 6463865, 4182955, 30762, 15048947, 1710457, 54000, 3668898, 13024726, 4020
     , 2147152, 4987168, 64511, 13771712, 9439427, 5253, 1715797, 8030364, 26093, 16388811, 14349443, 7544
     , 12323274, 13703937, 23380, 3171605, 15161143, 21757, 5989287, 5386512, 35186, 14473881, 2046282, 28973
     , 11268011, 28393, 46420, 5002113, 9403325, 1245, 10048841, 2832945, 39122, 5706287, 5496427, 25466
     , 9624163, 14064460, 33639, 2428406, 2790676, 9071, 4029308, 5282550, 45669, 4941304, 3028668, 2130
     , 13533953, 7491602, 43950, 11111657, 2453911, 18747, 941834, 5781591, 13080, 1370988, 4684484, 26101
     , 6920019, 10709076, 53250, 7273907, 9680089, 11238, 12436797, 4735257, 15154, 9416222, 1753242, 21865
     , 4981887, 14914641, 585, 7870239, 7653643, 30294, 14068535, 16139832, 4454, 5427599, 14394571, 29802
     , 14314714, 9659709, 37858, 12520296, 5166382, 23808, 14249154, 12856586, 26055, 11520628, 14410012, 13136
     , 3141479, 13609108, 50744, 11276644, 14680005, 4082, 10134641, 6446692, 40475, 3061869, 1691709, 5026
     , 16381945, 8756922, 56210, 8215228, 5280143, 25692, 16246214, 851609, 9665, 9443085, 5813567, 5080
     , 11659174, 5812538, 56754, 14761924, 16730612, 18505, 1166760, 8366165, 40696, 5058426, 871739, 18629
     , 510380, 4336768, 27800, 4011153, 7530074, 16349, 11856955, 9220453, 22193, 16530858, 7207395, 28204
     , 14456740, 5941645, 63195, 4175765, 13895727, 16959, 2412704, 16117236, 17144, 1284406, 1844886, 6665
     , 11720074, 12762035, 12641, 16486553, 3382960, 11917, 16430725, 8196598, 17903, 11786827, 2754189, 32546
     , 5544572, 7313218, 39673, 13551644, 914205, 21815, 1765422, 15211283, 56984, 7646446, 402084, 22717
     , 8924685, 1025994, 35508, 6235152, 11638117, 23373, 14317565, 15419290, 18260, 16550525, 10762198, 26536
     , 826712, 2443855, 39048, 13682200, 12223422, 12850, 8083417, 909344, 22651, 617127, 16170699, 525
     , 2730155, 4261162, 61342, 10574441, 7466608, 19174, 4120710, 15291538, 5756, 1960071, 12818796, 26744
     , 11274622, 7410832, 45724, 7852356, 1743909, 7412, 7179561, 7957412, 1424, 11451237, 7194836, 7214
     , 10177721, 325804, 49081, 6580711, 7613560, 20129, 1828221, 3098688, 23106, 14078767, 11525239, 3040
     , 13056211, 6671266, 24199, 10094749, 292101, 32173, 14646774, 11406400, 37512, 5904085, 6264689, 20934
     , 7338452, 6114424, 43361, 100847, 16647148, 20607, 320543, 4614214, 7199, 14356220, 15324519, 10287
     , 16482680, 8356737, 60398, 2133335, 11928668, 23508, 3796337, 9729076, 62294, 15451628, 14001011, 31965
     , 9321311, 15940806, 42381, 6065651, 7425884, 16614, 4755761, 1919997, 60040, 1845441, 4197193, 27446
     , 11939899, 6092180, 54343, 3040586, 843207, 23395, 3755235, 8891700, 41141, 16278133, 12214292, 16035
     , 2158318, 11276893, 50142, 10662843, 5669904, 12019, 14150656, 10746565, 61035, 11182652, 13316919, 24491
     , 1542298, 1238968, 27410, 12472785, 13796777, 2871, 6471505, 10830807, 24956, 4915664, 11848297, 2198
     , 7840251, 14250370, 58285, 7882853, 15629780, 21821, 7140400, 9404051, 36939, 2378640, 7926283, 23402
     , 4955130, 7783057, 41656, 14248436, 15291113, 28749, 8287828, 10597707, 45134, 10286688, 8106900, 23856
     , 302359, 12730045, 52964, 200803, 2702257, 31368, 8844886, 4402050, 184, 6428389, 10258081, 9738
     , 10323590, 15132258, 53568, 106496, 1179478, 10592, 10168616, 1013453, 21359, 8535508, 639546, 9844
     , 8356899, 1065849, 3844, 9841833, 1058309, 15782, 2136298, 14675616, 11881, 13869253, 8318700, 17022
     , 9468221, 10872997, 30191, 16645265, 4317037, 8024, 15975206, 14792889, 6817, 16576145, 5966211, 1981
     , 12880185, 4328425, 53609, 12124733, 3362571, 31040, 1275471, 3211249, 39859, 14829255, 15839439, 26447
     , 2739115, 4164977, 57864, 12601604, 2352089, 32354, 15238051, 1157077, 39908, 12735888, 2516199, 29284
     , 4268834, 7879516, 47903, 3614731, 7245783, 18033, 16638577, 4123375, 64054, 12764089, 7082783, 27685
     , 2941400, 10141643, 4901, 6989576, 6641385, 21433, 1694233, 13161041, 64167, 10455445, 10437518, 1281
     , 2421230, 13982356, 1505, 3096329, 14765676, 25576, 10551640, 4516247, 59864, 4852901, 5165545, 20880
     , 7063244, 6477023, 45204, 1517201, 3182178, 12005, 4659322, 3688517, 16260, 3792340, 2854295, 25273
     , 10422332, 4896211, 15525, 10651860, 3366984, 9651, 2713977, 1037950, 31915, 6474679, 3045433, 22714
     , 9385237, 9378331, 30592, 1391581, 2203367, 10508, 1216257, 4464505, 30084, 5322211, 14368879, 1090
     , 199325, 14570220, 59201, 6780594, 9918040, 14150, 3857888, 12756759, 48484, 8949004, 11955488, 8832
     , 14356402, 5491530, 56603, 12862910, 9847700, 14708, 8379799, 11099772, 21430, 4812181, 14446416, 28332
     , 9067443, 311383, 6029, 1427912, 1728338, 3351, 300590, 94661, 65037, 2115934, 13522098, 1262
     , 14378922, 1331201, 44109, 2187439, 12871318, 25975, 6843095, 15084953, 52698, 2297225, 3802253, 31237
     , 370816, 10133734, 8176, 5579567, 272115, 23846, 3845001, 16232629, 64474, 915340, 3258859, 24303
     , 2581128, 8279735, 64376, 6491398, 13346941, 19916, 10767105, 4869056, 16734, 14200371, 9969521, 3850
     , 9049346, 12027641, 57579, 902696, 11156711, 3748, 15458359, 2360855, 36150, 11099, 12640722, 11552
     , 10683010, 9085969, 13167, 7924812, 13008257, 7559, 2537019, 14678188, 58472, 1165756, 8830335, 9824
     , 14166520, 15654016, 1487, 14496597, 172073, 5225, 426900, 12137084, 16701, 16141368, 4274065, 22010
     , 2211741, 9814272, 57443, 7982661, 6449359, 6358, 13377983, 15107469, 40570, 11884791, 1949335, 15061
     , 15660092, 2913402, 1657, 7383991, 10188833, 10220, 2353461, 13252938, 27311, 11944210, 13359501, 6391
     , 7265274, 7136947, 13332, 13429283, 11856567, 7631, 11752551, 9314117, 26697, 7459858, 14096955, 6944
     , 6303294, 6277454, 31367, 5729323, 6267977, 30913, 13303434, 2543644, 46371, 14091878, 16085796, 16211
     , 12381098, 8613433, 14384, 182404, 816093, 10147, 15872111, 14106093, 24062, 16076660, 4885356, 30190
     , 1740350, 13223301, 38892, 12836653, 5772944, 18795, 1482365, 10616365, 63419, 10976211, 1591312, 19206
     , 247741, 14042041, 16614, 7770221, 16137041, 15504, 2039494, 8264389, 37620, 13372879, 4541523, 28866
     , 6634318, 6104172, 46503, 11055327, 7578656, 32337, 13694115, 4506737, 51963, 12474743, 10807595, 27043
     , 16692260, 3245005, 9961, 11002160, 9024879, 7684, 16685433, 15705714, 26267, 16145401, 15362686, 3978
     , 7033343, 8928937, 65291, 3967079, 6846012, 12710, 117182, 10486423, 26759, 13139299, 4509040, 21590
     , 9703648, 7321563, 21371, 2732985, 2617602, 27810, 15869032, 11851551, 51153, 354809, 5821362, 21024
     , 5372770, 16613690, 24395, 2368673, 9741220, 4187, 2459003, 14379096, 38623, 4522175, 8751125, 5337
     , 8033284, 8606028, 46299, 7319351, 16357509, 26538, 12354076, 14149981, 4649, 16198611, 8001442, 32353
     , 2255194, 13482610, 59748, 10518191, 1690688, 26486, 14644536, 12622248, 32642, 9806253, 9532908, 10785
     , 2094044, 12666805, 30042, 6824940, 16143096, 19079, 5253005, 4887103, 28045, 12587530, 5418136, 19385
     , 1984556, 5744291, 38540, 16602707, 10556545, 2133, 577901, 14379718, 16133, 1079750, 15037550, 13305
     , 5371194, 5825516, 7988, 15519617, 16548716, 19171, 8871391, 3026357, 15371, 13350368, 6951522, 16947
     , 14432360, 1332170, 58213, 8430302, 1899886, 9480, 7529786, 3213608, 54475, 1743927, 9652641, 5834
     , 1881717, 11420685, 45523, 13358756, 14085308, 16818, 4000929, 6980684, 18270, 15757347, 14737115, 11472
     , 10862, 4484571, 34221, 10896905, 7230489, 29344, 10692460, 9668585, 40567, 4229904, 8479657, 16714
     , 9515838, 11877399, 9671, 2938936, 7442612, 16037, 9761057, 11749040, 48928, 11562141, 834201, 18263
     , 7124466, 116852, 59069, 616687, 756812, 15371, 2374005, 616718, 45600, 6569378, 3663013, 9495
     , 12099050, 4788794, 15581, 13387174, 9228771, 26740, 16771707, 4614238, 22071, 15415849, 5971078, 20044
     , 13836400, 95510, 57786, 12227491, 3514564, 23773, 14877320, 6950013, 56262, 16187633, 7427744, 8720
     , 12645959, 9455018, 4022, 13667264, 13342563, 4381, 7916781, 11771757, 9837, 211090, 2459591, 675
     , 2771737, 9752170, 30460, 13609327, 11596079, 18253, 3635911, 5786632, 3140, 4256960, 6026289, 24387
     , 15660963, 1847316, 47476, 3604228, 7087029, 21593, 10720336, 5684078, 60127, 6646544, 5205530, 13042
     , 16076351, 3034581, 8514, 6686215, 13989971, 3434, 12556584, 3145168, 63222, 1428135, 10261248, 29270
     , 1806870, 3504531, 62505, 15106686, 6963287, 1181, 12455429, 14811232, 25123, 14657956, 1763689, 8409
     , 5690490, 1782868, 609, 12446223, 13898705, 24605, 12360696, 1553003, 59056, 5514073, 10482646, 25401
     , 5936996, 14820612, 56287, 6593515, 14234438, 4268, 341454, 14001422, 50770, 12897009, 12408377, 18927
     , 319077, 14407843, 26021, 8805352, 15461646, 2269, 7426657, 3374430, 23992, 6817762, 5010761, 13519
     , 4502890, 13058414, 55360, 14201169, 3199618, 4349, 1873256, 15130412, 14079, 3252913, 10718061, 26328
     , 9979764, 13871713, 506, 3161488, 10475643, 16682, 15789214, 9723616, 10016, 8703799, 11847658, 3217
     , 5780208, 3089917, 38982, 9492546, 13990084, 28492, 15545154, 13782065, 60615, 5332952, 12151188, 22538
     , 4610878, 9956760, 28042, 9472739, 6144016, 5785, 5994314, 6966869, 20578, 11122024, 3597736, 2086
     , 2339859, 3525704, 43412, 15725799, 4341008, 16892, 16382429, 3595494, 4418, 14723804, 9815227, 27705
     , 3503421, 2922329, 62450, 15477368, 4138989, 27419, 13379886, 11191084, 56237, 3642794, 225162, 14422
     , 12590451, 5556910, 38001, 15791259, 15037411, 2594, 12682403, 9740089, 50444, 3526856, 13665925, 10925
     , 10036294, 6012511, 8892, 3853968, 7004106, 5587, 6490361, 1106810, 896, 1573639, 448727, 5659
     , 16306262, 5126846, 53183, 7771834, 6684316, 10775, 9368466, 13913313, 27157, 6938212, 2333699, 21509
     , 16092713, 14291472, 24491, 11759669, 11549044, 16587, 3286304, 14624885, 41631, 14337351, 11331678, 15154
     , 6790648, 9614365, 3852, 8204044, 15520890, 32519, 13420890, 6668378, 46588, 3600929, 1943302, 3723
     , 15247430, 13709812, 45803, 5763985, 1985210, 32245, 16157165, 4014334, 43567, 15062402, 14751229, 3809
     , 2362086, 2470958, 63440, 5401330, 1830891, 10748, 386405, 16560114, 31839, 929310, 13686916, 19700
     , 11341814, 858128, 47280, 11081215, 11495531, 17619, 11063436, 16588526, 34472, 7265359, 44495, 16051
     , 5800326, 3941995, 36272, 15296641, 1037057, 10397, 13418864, 12199436, 47747, 15404151, 6902892, 9966
     , 12904965, 14204818, 4361, 1652689, 10499687, 826, 6703627, 9449050, 19417, 16628593, 4779332, 17085
     , 11100717, 14783319, 29529, 14344751, 15280213, 3438, 6568025, 15446819, 49741, 9533038, 16703969, 19552
     , 16425768, 15470233, 15338, 10246922, 2810224, 1388, 7407881, 10357858, 32744, 5139681, 6083500, 32315
     , 7565476, 6588076, 59856, 10458153, 9200361, 19226, 12786047, 5300747, 45338, 14336768, 5323813, 30188
     , 4615626, 13657265, 64415, 5845132, 7983054, 10499, 12163395, 14941053, 51774, 16443972, 10742064, 10999
     , 385883, 5139733, 3369, 1966111, 4556056, 32083, 1920254, 5701763, 36904, 444686, 2429021, 16799
     , 8552818, 15179615, 24433, 3303320, 1976899, 658, 5065322, 1397736, 41112, 3692349, 8520729, 8716
     , 2148647, 5994735, 64811, 1879515, 10673249, 15513, 15542312, 4717977, 64274, 2394380, 3619319, 19258
     , 2953239, 15347069, 30581, 9095559, 8172986, 15024, 10925507, 1194528, 33509, 8525343, 5281962, 17558
     , 11291660, 9205737, 8340, 1316221, 9652914, 21022, 16772523, 15992109, 51444, 4649599, 6537967, 7593
     , 3121888, 6495777, 15335, 10754126, 9341137, 3352, 14568366, 4117381, 46152, 13807833, 14671491, 20474
     , 9668104, 14263578, 44267, 176360, 9178259, 16534, 7289437, 4457680, 34160, 10644791, 4684385, 16031
     , 13733138, 15714251, 7585, 15911684, 8013753, 20408, 6065327, 10772107, 30038, 3880396, 9549682, 32617
     , 3302239, 661141, 16289, 2872623, 1776855, 5606, 6716449, 6144948, 59060, 15965103, 3921083, 17871
     , 10314745, 11559786, 29507, 12883303, 5358746, 17781, 13549592, 6363711, 13086, 5683501, 14833735, 32025
     , 366165, 1962356, 30869, 7942967, 13470058, 1395, 4556912, 7414269, 46051, 12500028, 3322273, 15552
     , 5069377, 14485202, 9585, 10657786, 8580170, 371, 10626285, 8719381, 27866, 7702228, 10219053, 27381
     , 16256745, 3948583, 10365, 1920805, 7387621, 27301, 299221, 3308638, 62111, 4451835, 6486335, 251
     , 3224183, 15074012, 31494, 3867550, 13209202, 23949, 1726618, 1577732, 23478, 16249324, 10425326, 10828
     , 12237423, 15584075, 37945, 7832749, 5065038, 639, 7060621, 14852861, 2170, 11453183, 3652161, 8975
     , 11190428, 7226330, 25479, 1563619, 14134894, 10411, 38954, 13962480, 54100, 3861109, 7643431, 7639
     , 4917506, 5804813, 9270, 14312407, 467874, 3573, 9840837, 506284, 8892, 11090380, 2348682, 4929
     , 13914338, 15609072, 20100, 11181777, 13032404, 21416, 6358373, 7609413, 53358, 3112473, 11008367, 24717
     , 10495036, 16556006, 22967, 13757245, 7058543, 3491, 9519490, 1959990, 2465, 9892324, 12700683, 15340
     , 7455103, 9063597, 33291, 4883516, 6148128, 10818, 5389352, 16624353, 63223, 1994673, 4983958, 24503
     , 7882146, 14743339, 3190, 7137144, 11605908, 10045, 10851151, 13851870, 31266, 2514269, 15407908, 29614
     , 14956845, 6391122, 37770, 7084323, 2186219, 24656, 15712047, 6993793, 62255, 7213908, 13524039, 11854
     , 8463190, 10851859, 62116, 8991741, 8772097, 21841, 3919444, 12555654, 12287, 8513446, 5217329, 29284
     , 14931492, 11654409, 39110, 3790800, 13988617, 23517, 5307309, 7738325, 56601, 11319587, 16448031, 30321
     , 12957698, 11931976, 5083, 13484989, 12961596, 24939, 16615537, 5983302, 2839, 702576, 2026240, 18826
     , 8398113, 1876695, 42143, 48730, 3435726, 26886, 14504624, 3393319, 61884, 3135305, 6288146, 23808
     , 12985063, 9098711, 20785, 14970498, 4025621, 20729, 16774073, 10621503, 35039, 13289189, 15138019, 14408
     , 15355742, 12786227, 27887, 6165583, 15195214, 3269, 5875682, 606254, 60960, 7292690, 7994808, 9590
     , 11632259, 8999896, 19702, 13508720, 9899030, 28943, 1993389, 12118501, 16384, 2041078, 9284816, 23284
     , 16566550, 7984595, 8342, 12485170, 3726716, 2613, 14258386, 8043076, 11629, 11714982, 1635028, 18119
     , 7873340, 14129571, 39251, 8578976, 8451238, 20302, 12025582, 15747787, 39186, 1661741, 3278746, 12660
     , 12656187, 13477537, 44236, 998370, 9798013, 16344, 16208106, 11630195, 365, 4196790, 12982690, 25439
     , 893415, 8041271, 47172, 12534305, 3842458, 27785, 8718544, 11300925, 24373, 4906165, 4010573, 4947
     , 13534482, 225502, 33889, 10948427, 15804153, 8739, 12544516, 876787, 6384, 15697219, 14125856, 5963
     , 6914441, 10208929, 60183, 86786, 16009826, 29483, 936902, 2310844, 38965, 5545605, 6701249, 1343
     , 8158440, 15249465, 26094, 3121787, 5370783, 30980, 7134103, 10537768, 14079, 9862130, 8186956, 18128
     , 8815634, 10145328, 31876, 10417305, 2334003, 28142, 7595391, 8734962, 35511, 8347376, 12500363, 453
     , 15395131, 15069250, 58432, 359862, 4151294, 25944, 10839497, 13790244, 59093, 11366447, 8888486, 27451
     , 8097380, 13972241, 54261, 9625481, 12177626, 19165, 1022970, 5347598, 61885, 12374180, 2419741, 12486
     , 7349152, 3080410, 44975, 4551908, 14758581, 12422, 4053191, 12405757, 37821, 2918702, 7794195, 26889
     , 2412952, 1165205, 34556, 182068, 9791022, 3947, 6616424, 12269653, 23416, 8180075, 11793757, 21961
     , 13746303, 1459018, 57107, 15930078, 6804477, 2365, 5747670, 2250730, 41469, 11879481, 1616868, 19291
     , 14128818, 9395033, 26306, 3137188, 16674404, 31663, 15108836, 7680613, 47571, 11545967, 3921631, 16528
     , 2976712, 5821655, 13689, 6659539, 3202724, 6035, 7477999, 11033544, 23196, 13218341, 15769091, 521
     , 9647253, 3053368, 49343, 6181061, 14568817, 24077, 10926417, 13200230, 10051, 14078808, 6391968, 27385
     , 15902473, 13051936, 45811, 2611616, 9425971, 24219, 74103, 4150052, 61617, 4307662, 15398135, 31421
     , 1339895, 6441269, 28416, 15330668, 15438287, 12804, 1290146, 15845436, 57498, 14570331, 15567061, 28016
     , 3123743, 8863002, 8312, 9892826, 12508045, 23667, 10604061, 11798435, 16827, 5171845, 15478709, 31296
     , 14099171, 6933405, 54997, 9599850, 16152581, 4268, 12642821, 1933708, 10182, 10028258, 7719413, 22449
     , 11904525, 4242578, 20347, 4634778, 2057339, 20803, 2781710, 14505420, 52612, 8428060, 366336, 27446
     , 956943, 15064326, 30947, 7108564, 793108, 25356, 9432619, 5967338, 51602, 1482861, 15753291, 18216
     , 5972760, 1069155, 46176, 6582427, 16197656, 9348, 3281371, 13804114, 48686, 14498395, 13958947, 25637
     , 8056670, 9177345, 61574, 13030894, 13754797, 10035, 8357865, 14371313, 42545, 5068583, 5492437, 14039
     , 4912439, 1571692, 17693, 13982468, 5071133, 7628, 4084891, 14552205, 3000, 5844029, 13242993, 12210
     , 12786925, 9523195, 55415, 5262608, 631190, 6408, 161763, 14047895, 17597, 4915706, 6055819, 4889
     , 8705055, 4302159, 59034, 6178056, 13135958, 25031, 924827, 13827183, 60578, 5707050, 5538018, 32518
     , 8942512, 10452026, 64170, 9056842, 14388661, 17404, 10332066, 7930478, 38554, 2669017, 1268467, 20139
     , 16277372, 11206279, 45962, 7040818, 10812954, 27115, 13794492, 16172724, 22023, 7666151, 7519911, 10032
     , 13966768, 4842440, 15377, 12749818, 9229363, 5663, 16675034, 6418968, 30298, 2111163, 6111327, 17451
     , 5655745, 9447196, 38647, 6080854, 12268368, 15709, 11483484, 3716166, 25114, 11996390, 7910491, 11689
     , 10785672, 13267229, 30042, 15232504, 14892629, 18162, 12041764, 4541788, 64603, 9399570, 4707981, 26591
     , 9013933, 2246803, 31262, 12767550, 2202761, 1024, 13918425, 10374499, 27798, 11930322, 5070328, 19958
     , 16746989, 13654597, 8174, 8697071, 4938214, 10508, 9874870, 12336624, 38911, 5643414, 228982, 19142
     , 6181297, 170257, 7108, 6988222, 14721497, 29033, 11295084, 6261611, 17397, 8495480, 10510384, 7366
     , 13182416, 2995867, 36381, 1911089, 8842965, 28667, 717237, 15410222, 15057, 13462908, 9966895, 13185
     , 15808835, 8472941, 49651, 12978946, 2371553, 1497, 8318081, 7672030, 14689, 7017144, 12212935, 9432
     , 5538947, 11721630, 10254, 9081840, 3242810, 27729, 12390965, 16320825, 45737, 10459814, 14583491, 11689
     , 1211287, 9531651, 32596, 2580841, 12475091, 31714, 2006439, 14091219, 51561, 2067022, 14629819, 1280
     , 7952663, 13072005, 59909, 13669189, 7711122, 1173, 11189813, 16309805, 54631, 14693835, 11351464, 14399
     , 13909334, 4108987, 47413, 8784986, 9777697, 21171, 12501054, 12375149, 63972, 11741084, 11580583, 19213
     , 16744640, 16168673, 36037, 5579285, 13518411, 7122, 10240566, 15410611, 53256, 4368892, 15055663, 15180
     , 1392029, 4810781, 57842, 12895673, 2928971, 15874, 15555155, 13640136, 35345, 12502165, 4174424, 22029
     , 5922834, 5788272, 62528, 11792339, 13423281, 23691, 8184003, 1008570, 55612, 9690042, 10013502, 13175
     , 822920, 6868864, 31391, 4111566, 16672927, 22426, 12432553, 1928415, 32212, 1779534, 4262990, 14338
     , 15784706, 1931020, 25636, 4972067, 8467399, 12156, 13735214, 16614238, 62403, 13558651, 1935523, 29723
     , 8636047, 11428934, 29921, 8032737, 14523919, 3200, 14973988, 14107123, 14724, 3789394, 12155754, 19262
     , 11116949, 12140813, 13033, 15481665, 10476548, 4560, 14543408, 14017852, 63791, 14732805, 611721, 10606
     , 8631958, 50082, 20018, 15512364, 16497220, 32307, 11337779, 235408, 60732, 6209668, 12264971, 23694
     , 10301085, 4545463, 42599, 6009173, 15506767, 4859, 888137, 16169805, 15013, 6674443, 5434736, 3238
     , 1863555, 8868821, 46995, 195058, 4899238, 16740, 12816253, 4017507, 33826, 9638530, 8080267, 28933
     , 6244277, 10491158, 54175, 3392001, 13148572, 30006, 7089581, 3974166, 48753, 1672465, 10011316, 17772
     , 11814488, 15883804, 18323, 1711015, 3087614, 7424, 10647895, 14082529, 40862, 4352987, 15523880, 2397
     , 1049046, 3412732, 58749, 11689625, 6529241, 18460, 12593829, 11975181, 51030, 15550083, 294265, 9391
     , 11960949, 12648755, 58234, 8396818, 4580720, 16779, 3735758, 9301772, 34647, 9213760, 6394427, 31830
     , 14316390, 11577085, 24394, 15002428, 1050661, 2758, 10374450, 2679852, 12421, 4054504, 5863827, 17262
     , 3482146, 15458595, 3286, 15941063, 7768646, 25553, 9212531, 5627891, 38604, 4210973, 3725937, 18244
     , 13591554, 12098433, 41348, 6770768, 2139050, 27640, 3743502, 7472151, 15316, 9309370, 9405850, 16171
     , 2480681, 2449841, 60821, 6621565, 1754945, 2027, 11577853, 855165, 50167, 2706028, 9872521, 23224
     , 2097549, 563036, 54454, 6095958, 11549170, 25155, 5010532, 15306690, 63334, 2694722, 6031826, 8195
     , 4597028, 5988075, 52238, 16320087, 12211461, 9404, 16423926, 9279716, 17321, 8545492, 2016280, 15202
     , 6062380, 7536163, 25396, 3239203, 541859, 12706, 16109757, 899031, 18360, 3637497, 8582502, 8916
     , 1318944, 2612306, 19954, 12522366, 7144996, 9479, 6649413, 7267082, 52042, 11379763, 6937525, 3300
     , 6003803, 6443510, 64944, 15267128, 2258088, 17656, 15485847, 5013965, 39162, 11934989, 6410667, 3277
     , 12954452, 3609412, 47580, 15071513, 14273784, 13788, 12212002, 8516457, 26620, 6300890, 5939631, 4635
     , 11661818, 11627279, 57521, 11632731, 8967891, 19910, 14942468, 8900368, 1473, 14331097, 3786563, 29103
     , 11334835, 15302530, 59025, 4439899, 3169170, 3142, 14573931, 11473791, 45155, 14706678, 15149597, 20006
     , 2232324, 6737946, 25086, 15356081, 15279116, 5935, 15728380, 866226, 20469, 9022045, 174859, 1726
     , 8057363, 11245169, 56650, 9076732, 2446773, 12850, 8991341, 11179608, 30738, 6576036, 587277, 7126
     , 10084673, 7029993, 11387, 5679272, 8824952, 4410, 8472661, 6945843, 55636, 12572038, 14431990, 18968
     , 8736723, 11930587, 1798, 5307024, 5662806, 19907, 2067916, 8191204, 9455, 3009256, 10239587, 6404
     , 1280649, 5122231, 23706, 5277666, 8240158, 3851, 10707666, 10280038, 60404, 5729413, 12064230, 6628
     , 11929149, 335587, 6294, 2779364, 13058437, 2540, 9987989, 216559, 16393, 11843048, 4259641, 14004
     , 9105867, 6586082, 39874, 5419944, 3972561, 25185, 11427629, 9102815, 49665, 641109, 6222592, 10702
     , 1911580, 3496114, 2917, 16206134, 12912081, 17890, 349139, 4420388, 18480, 11019024, 5675141, 1320
     , 9585025, 4206131, 43277, 13342037, 973859, 24161, 512650, 714720, 10377, 15445559, 3323569, 32337
     , 9751323, 5434236, 3410, 14399090, 14346783, 12429, 7537972, 12629041, 39418, 9643449, 5166651, 30677
     , 13036607, 8113014, 19812, 2928006, 9118444, 3734, 11569717, 11922480, 19234, 3304284, 14629714, 15153
     , 12783709, 16136410, 48772, 15515347, 8778035, 32176, 15912746, 6899094, 31371, 1499306, 15122781, 26546
     , 7536925, 11668465, 18440, 6748260, 16498622, 9685, 7616903, 4144345, 63103, 1564147, 5302422, 25922
     , 690368, 11002042, 62881, 10138890, 13074809, 13846, 2451714, 12745261, 9833, 3135453, 12812513, 14990
     , 4296240, 6419530, 41555, 2307653, 15925277, 10562, 5914931, 13875027, 24817, 6061023, 11182382, 5342
     , 822639, 16510177, 137, 8159293, 12784501, 19447, 7362173, 3194811, 26026, 10108851, 4697920, 20461
     , 13884149, 8247413, 1877, 14928315, 10232704, 14020, 10149935, 6569266, 41503, 3718320, 16205635, 27894
     , 995346, 7869290, 46559, 59860, 11722542, 799, 6191565, 16567271, 19846, 13646717, 9494658, 9208
     , 688738, 10616757, 22294, 13579010, 11864742, 409, 6328533, 14897656, 27163, 3445604, 6224915, 13833
     , 14969120, 5422732, 65511, 6631269, 8008715, 25860, 3233446, 15032272, 12814, 8653302, 11158823, 23286
     , 13580368, 15893425, 42698, 470934, 9998177, 20026, 1635968, 6787691, 29967, 13769290, 4139303, 2556
     , 13504873, 9683698, 37192, 1785461, 11757330, 19733, 3634418, 2447730, 27825, 918858, 12108455, 16101
     , 8704727, 11751821, 32217, 16087640, 5921363, 5245, 8661509, 591021, 57789, 10115141, 3867292, 14863
     , 4259956, 12595809, 29011, 363543, 4024119, 20000, 15895289, 16108409, 60396, 12745204, 8951920, 22347
     , 16008356, 1552389, 12899, 5196574, 14304435, 29824, 6452658, 2215364, 31839, 2417888, 9746926, 8452
     , 11161261, 7119348, 15551, 16701760, 8858827, 27635, 10839754, 11028083, 6632, 262562, 923289, 25000
     , 10172452, 171647, 59950, 15789011, 2720869, 22370, 10459888, 3593366, 62990, 3262361, 2496517, 184
     , 15975965, 969052, 5906, 8767440, 7132894, 18201, 10865571, 8191814, 45268, 15589995, 1310935, 10535
     , 1489044, 537909, 33625, 15592590, 8358942, 19397, 12639071, 14609893, 11973, 10914299, 12880580, 31647
     , 16519397, 15130248, 63532, 238550, 8693518, 27741, 10826233, 1178702, 34978, 9084990, 8643985, 32085
     , 16486201, 14092134, 48626, 4895114, 4816499, 22822, 830644, 8858496, 54953, 16589526, 1889569, 30076
     , 15485888, 723987, 8917, 1436058, 7852874, 10378, 13882603, 15175630, 38344, 6021481, 14748097, 17900
     , 1253672, 15885008, 34702, 8993238, 958425, 18449, 15168542, 5514706, 58364, 5872741, 10938143, 1292
     , 10478453, 9920605, 57391, 14946532, 9149438, 10996, 2267732, 10600711, 64820, 12403198, 7277788, 17372
     , 13391403, 15433061, 5556, 15274568, 8064467, 13978, 13838352, 7737837, 11016, 14720383, 2313692, 4459
     , 9491120, 3976846, 52656, 5660728, 13964679, 16407, 4371968, 9663378, 2071, 13456033, 15263283, 20614
     , 13336711, 11460949, 62941, 5875689, 1160717, 30515, 14622824, 11143882, 14053, 1648770, 10758171, 28966
     , 8310520, 914767, 21665, 14892903, 13826998, 15575, 7605285, 15428670, 44081, 16691934, 11880512, 20861
     , 13510562, 11692467, 61820, 13408743, 16698653, 1192, 8757978, 8134447, 64648, 11885313, 10961499, 10253
     , 6969939, 7533861, 41391, 5895269, 8626116, 29146, 5799793, 16677798, 49667, 10810165, 2105207, 2212
     , 85398, 15357571, 27833, 11868898, 7370422, 23969, 14915967, 12675267, 46426, 14126970, 10691443, 16825
     , 6294096, 8401848, 38645, 14243532, 12205769, 28351, 14052620, 8926983, 4088, 4530799, 2818900, 12118
     , 13854919, 16515419, 9096, 8348286, 8400098, 11133, 4228006, 223682, 12319, 9263786, 3798746, 30689
     , 16573500, 5719703, 40824, 5513654, 7115862, 626, 14837125, 29496, 6870, 6030079, 13393587, 24884
     , 14471649, 7576732, 30638, 3963411, 6636323, 1257, 15543824, 9596365, 38867, 13548403, 16743956, 27597
     , 4757364, 11414322, 40006, 7581581, 8100356, 1193, 14252110, 776464, 45109, 1460951, 1233890, 17538
     , 16116117, 5112657, 62278, 11397334, 5055667, 26795, 175904, 5067584, 34437, 15280875, 8388189, 24895
     , 9058058, 11859040, 45957, 7284360, 13429948, 8717, 12400256, 12925002, 49950, 4056, 2638242, 9640
     , 6898230, 4334852, 53662, 1540597, 1199444, 3009, 14258550, 6627036, 2056, 4365430, 2040381, 16824
     , 13402310, 13313634, 6765, 860020, 2076911, 2832, 3305753, 11458808, 28418, 12886848, 5338828, 23372
     , 7268589, 16588813, 36814, 16009033, 1208967, 1352, 14488385, 15507962, 57839, 13173100, 12327069, 3700
     , 4639506, 7353663, 59652, 12355852, 4011093, 26961, 2398161, 6844191, 38147, 4132998, 767859, 10250
     , 11083242, 16357680, 5349, 3946616, 11371696, 30784, 14405297, 2909519, 18147, 11718351, 13795883, 32392
     , 16279069, 11054807, 19832, 15991168, 1524078, 28907, 4672016, 15823676, 38838, 7374063, 2620492, 15629
     , 15601009, 6354593, 29455, 4035330, 14911581, 31734, 3085841, 11481972, 41448, 9970413, 10021906, 29623
     , 6564464, 10203284, 3942, 10470564, 2612856, 5161, 10013655, 9306618, 3505, 12457041, 13858420, 27364
     , 9128820, 15306519, 29045, 12921964, 5124507, 16467, 5093497, 1910060, 46881, 15538862, 5372147, 6774
     , 5295255, 4428589, 40090, 115545, 2304882, 25355, 5978169, 7821151, 12925, 3245642, 1697668, 24334
     , 670646, 46675, 49083, 8353879, 10313945, 6586, 4970340, 7986804, 30103, 7836129, 12477207, 24492
     , 6962017, 10817989, 51022, 8635165, 649280, 7561, 8058002, 609104, 52512, 9612087, 12173436, 12017
     , 4804553, 15572728, 33840, 5971873, 7399135, 16273, 1531251, 14403639, 8120, 577570, 6403456, 26041
     , 8801135, 16476182, 32282, 4747753, 12135507, 21700, 6418308, 14472717, 49313, 12849816, 15788434, 17296
     , 12743496, 14862519, 7764, 15478924, 8257954, 31384, 4884988, 16505100, 60994, 8151197, 13074317, 7896
     , 10105670, 15576233, 22173, 16708845, 7464457, 3764, 10473532, 5384763, 51477, 7629819, 5485126, 29284
     , 12974667, 13296957, 20179, 10481398, 14988107, 7153, 129731, 14655236, 2128, 4337199, 13843634, 2648
     , 15531049, 8361475, 15641, 13386542, 7265185, 17892, 14269615, 13185808, 38592, 14861119, 3818891, 6366
     , 1221786, 6183884, 51686, 3780999, 3432194, 29093, 5705907, 11726876, 21427, 14871626, 5305724, 17283
     , 233947, 3574390, 56253, 12754914, 6524414, 16435, 3217405, 14114519, 10618, 1076876, 578891, 9884
     , 9126424, 15007011, 42211, 2132650, 10603273, 8008, 13590439, 1388821, 38261, 7321418, 15724679, 23038
     , 3573520, 11841391, 65005, 10908884, 2090911, 31166, 7371833, 7060300, 26781, 359345, 4527257, 14666
     , 16532403, 13957921, 22663, 6038463, 9305163, 14178, 3456275, 7771211, 50795, 6015798, 15771812, 28311
     , 15580125, 11600185, 15046, 7624755, 4736694, 12607, 13471799, 9279351, 63605, 6890807, 13209346, 765
     , 16266149, 15958527, 40569, 10162268, 6121668, 9644, 14207470, 4759670, 7839, 9782195, 8767998, 30860
     , 11777912, 10821043, 30574, 11947442, 12861525, 7, 16637221, 2894466, 15417, 9365878, 132030, 25856
     , 8147115, 9856683, 59921, 16264505, 2556136, 21131, 9142914, 16226065, 50346, 3018042, 10999096, 21989
     , 10424377, 729832, 5544, 1197984, 6838603, 6559, 6431797, 3175693, 36182, 14611890, 16026822, 9863
     , 15399662, 787033, 41323, 9656666, 1082190, 31467, 6790559, 13579470, 58139, 15613063, 1671838, 20012
     , 10706077, 6933388, 42088, 8717547, 5444544, 15571, 9975964, 15509102, 41096, 2500416, 6484215, 17605
     , 4674106, 9054452, 54251, 14906742, 14703039, 17312, 15917229, 12965584, 786, 6376545, 11202769, 24368
     , 8564906, 10987233, 28425, 8530283, 11784730, 22365, 7939558, 12279534, 26009, 13381603, 8996237, 2367
     , 5373060, 11499601, 28868, 14570624, 12633369, 4656, 7709942, 16316720, 3686, 3824749, 10560099, 24036
     , 15524278, 13599737, 56217, 14603799, 13453843, 7226, 5882951, 6940303, 19966, 5913622, 10614641, 18475
     , 2009341, 13805512, 61422, 3823407, 10414961, 19976, 14627371, 7646459, 30908, 12087231, 5361294, 19273
     , 13005133, 11973738, 3759, 16241668, 4116745, 29329, 15328162, 12545997, 46232, 6155618, 10650607, 15368
     , 4764486, 10443066, 39664, 870784, 2376144, 32469, 14632108, 8666853, 42894, 11034961, 1233952, 9691
     , 13650400, 949897, 60548, 12555980, 13363496, 23092, 14321708, 14439717, 55413, 5669501, 4468674, 10996
     , 15686237, 11806914, 2207, 671132, 3853832, 2903, 12730586, 2630996, 28503, 8088521, 15574640, 16988
     , 15213819, 11060189, 38069, 5987753, 7301700, 9807, 6037175, 9574684, 44530, 5133619, 3048186, 24112
     , 2326325, 1244228, 62743, 15036006, 16133186, 11018, 13048693, 2929881, 4153, 5744987, 589444, 19838
     , 4535487, 10407600, 8459, 8970725, 10296445, 29490, 12220905, 4455860, 26234, 7265927, 15467559, 13365
     , 7909528, 5507610, 14520, 9681784, 2518631, 20332, 7684161, 10703218, 17534, 9190828, 8090669, 4253
     , 10811127, 11224530, 58316, 3915050, 767807, 22788, 4569781, 3790422, 29451, 3375786, 11457272, 23649
     , 13599713, 1326563, 43410, 11993337, 6076553, 4933, 1106679, 8530099, 21604, 1012538, 7820014, 23427
     , 15338969, 10928357, 14627, 10267042, 12386812, 24254, 14238296, 2120591, 41804, 748757, 1049242, 32026
     , 10773799, 12591681, 27779, 14810210, 13131115, 16679, 7487670, 7337418, 9976, 14245081, 3743357, 8551
     , 7916271, 7669420, 31010, 8595983, 16325048, 6700, 6092148, 5400128, 1908, 7420641, 5900277, 14345
     , 10741735, 11245660, 58862, 3462713, 14282423, 27229, 4868130, 2616292, 39184, 15319536, 8780621, 12560
     , 6734773, 6414864, 13299, 13133967, 9556703, 21760, 2862099, 4572499, 14179, 602549, 9015193, 2720
     , 13836910, 3360485, 59951, 7826172, 9481080, 8327, 3376396, 2811444, 44156, 1109842, 3619546, 15452
     , 5037674, 11796543, 38593, 12621697, 11125877, 17734, 5464724, 2085864, 27798, 872550, 7234556, 17395
     , 2189300, 121028, 10598, 6637339, 2081669, 9244, 13538839, 10649105, 56064, 15197422, 1147319, 24632
     , 11291986, 7042613, 49415, 9296440, 69627, 358, 12860939, 16161772, 21048, 7375639, 3809301, 25392
     , 11675025, 14364251, 59578, 11932445, 10805784, 14864, 15837107, 11541163, 9066, 10752623, 10820200, 7400
     , 11041064, 7725730, 23015, 7570177, 4778827, 30475, 7075739, 12762647, 2883, 4343392, 8720310, 6487
     , 11578154, 6218220, 17477, 15660272, 15376662, 25100, 1589099, 16133302, 408, 2971099, 16223919, 12916
     , 16248159, 5129740, 53946, 11956035, 12680128, 6607, 9709346, 7292337, 52142, 1342296, 14960441, 23955
     , 9422231, 8436178, 53361, 15358534, 2826674, 13623, 537700, 7554943, 60710, 5760706, 12512972, 31390
     , 10924820, 10033793, 46365, 14081624, 14225230, 13799, 1105157, 1974421, 17906, 13161344, 16590613, 17519
     , 7159414, 6060699, 59035, 6886118, 15179705, 4985, 5277496, 13125821, 49505, 9240566, 4850845, 8742
     , 8320947, 1730815, 12850, 8762163, 15011013, 22448, 14116071, 12999593, 7176, 3080437, 13079545, 21812
     , 16674788, 15570922, 31260, 154012, 3371922, 27529, 14499826, 6262730, 24972, 5539411, 1684454, 10887
     , 2101004, 10405316, 13418, 973400, 12111885, 31286, 2206925, 2275152, 33867, 12969061, 3605919, 30359
     , 1700454, 10918736, 56091, 14392001, 2368261, 6007, 4943859, 1158438, 18717, 8007763, 10018757, 4961
     , 15430006, 12994369, 19052, 13203024, 1165695, 5352, 12466285, 6717297, 27492, 1698654, 16559600, 12934
     , 9310368, 9565257, 16165, 16221819, 10994477, 26447, 56562, 15498977, 47848, 6517412, 12624394, 946
     , 14828660, 7779441, 19597, 10690923, 11970488, 16927, 9392461, 12432126, 50802, 11531253, 16143321, 8234
     , 2528574, 16256918, 1509, 13905916, 2073548, 31602, 16188537, 14975424, 39384, 2307627, 3241069, 1356
     , 950309, 3022915, 64495, 7807170, 14938158, 24801, 11749347, 100174, 5655, 12285862, 2418956, 13881
     , 3807850, 6218118, 6159, 16228322, 12584047, 12153, 5523440, 9987811, 17511, 14734902, 13032819, 7268
     , 4277917, 7689827, 7553, 9150087, 3446363, 23462, 6902437, 7622551, 36680, 12143754, 2675261, 29775
     , 3332660, 8696306, 53598, 9170572, 4029091, 21871, 6745993, 3954408, 5225, 8514307, 16488975, 5476
     , 2836543, 15554298, 59774, 12392791, 8257966, 27967, 3882565, 1215178, 44687, 11522985, 15227810, 15681
     , 7177000, 4742731, 58622, 9963918, 10177598, 26052, 14084378, 57428, 59754, 9228294, 2171507, 14666
     , 14223237, 13254143, 29020, 8980837, 14474773, 31683, 10569900, 12876339, 28109, 14794069, 12179163, 17245
     , 14195751, 5074447, 55117, 3671379, 2619045, 9703, 12916890, 1211302, 48724, 6394780, 8207422, 26056
     , 8429102, 7148074, 49994, 9956090, 12027888, 32230, 7702113, 11986689, 47352, 270406, 6274967, 4208
     , 10671183, 6377069, 5521, 15402767, 15888070, 31860, 2399328, 9181776, 39641, 4924162, 12403926, 28187
     , 7835897, 15627780, 37756, 15398544, 13354763, 23372, 11406766, 7974517, 13102, 603478, 9704989, 11875
     , 6834672, 9172623, 19255, 12298029, 10461390, 27713, 7598756, 3269090, 35764, 14689533, 15499451, 13692
     , 3084713, 15274902, 33702, 5388056, 14615266, 30728, 12885523, 744875, 46697, 7706410, 2303379, 27887
     , 15028732, 13068213, 53642, 1424694, 10608091, 23051, 10370591, 2350625, 28537, 10181886, 3508443, 16066
     , 8633312, 2348076, 42236, 8804557, 1704054, 8536, 1057166, 11986289, 41621, 6244223, 12235217, 15995
     , 853557, 12598591, 8806, 12452789, 15764117, 16756, 9223864, 6769339, 43546, 11416464, 7054675, 27615
     , 8734178, 16262243, 35377, 15654483, 3645680, 10910, 10919781, 5494987, 5258, 14246678, 8906774, 25797
     , 15302291, 166471, 30586, 16461326, 9324222, 4978, 3122789, 9127046, 4883, 7828982, 9189544, 4042
     , 13658106, 12408845, 52292, 2281518, 16213038, 16626, 12777256, 10935168, 43835, 2471929, 11152941, 20584
     , 2696191, 8662026, 23178, 442774, 10390032, 26563, 4590212, 12189525, 36700, 1680664, 6037668, 11891
     , 14429604, 14941375, 3182, 8098493, 15556776, 23542, 14770319, 14758120, 24140, 10472, 13546469, 2354
     , 9224120, 16293971, 31036, 12498877, 14860312, 20105, 5267678, 7955503, 51882, 4128790, 3712209, 21546
     , 6700629, 16620204, 41392, 3391716, 12525435, 20824, 4266494, 8582746, 1550, 5414852, 7367073, 12852
     , 7635157, 15690002, 23702, 14643198, 9445684, 16538, 7106579, 12817131, 56296, 3885689, 12880654, 29682
     , 8269311, 396179, 56821, 8786393, 16318759, 5428, 16599463, 14850788, 62591, 5480233, 786037, 31276
     , 1042427, 5053227, 6624, 8500494, 2014593, 22072, 14633667, 7389769, 23689, 14579333, 11456142, 2220
     , 10539531, 1733036, 50255, 14986298, 14454162, 25150, 5901461, 11003272, 21654, 5968238, 12203825, 8361
     , 16102749, 8861705, 14181, 15675381, 4997867, 9156, 7488883, 7180831, 22185, 12102123, 8477554, 12823
     , 5285001, 11808595, 11457, 12109579, 11759237, 12784, 2941773, 6065229, 20554, 7892652, 15345331, 6904
     , 11523631, 6170327, 27068, 4702106, 10080322, 8675, 9370407, 6715048, 28269, 10121172, 1227262, 18274
     , 4286686, 16475432, 1856, 15111176, 7388773, 24437, 14162985, 12789661, 358, 12905837, 4755463, 25957
     , 5380553, 6017915, 47867, 14815479, 1509874, 37, 12654987, 6527825, 3362, 4057105, 914366, 3900
     , 3624687, 6368227, 13650, 16752810, 7619352, 2100, 5742604, 1842741, 52127, 9135636, 5895646, 8387
     , 13652584, 4729396, 54041, 7042519, 5730740, 16918, 14225830, 7086824, 51763, 8013793, 3108870, 19719
     , 5594782, 13037825, 36898, 12768919, 8302460, 19596, 280599, 1094360, 25240, 444865, 770075, 9489
     , 10399735, 12610547, 7161, 5420264, 7279903, 27843, 11935848, 3828244, 30391, 14366753, 11590793, 18396
     , 6754113, 16690223, 65181, 7586839, 6067129, 25179, 1260570, 9533744, 24460, 9616171, 6241801, 27603
     , 4234846, 3742341, 949, 3549031, 14220566, 31105, 10632374, 13109810, 56133, 9121219, 6979316, 26421
     , 109999, 2322079, 24969, 207830, 15291621, 1953, 6910590, 2562460, 21462, 13549588, 8274275, 9686
     , 11011896, 12282467, 6375, 14466164, 12471477, 12562, 6569732, 14078849, 44442, 12284749, 1231850, 4449
     , 6749959, 3849773, 12898, 2373342, 196738, 19832, 4814856, 420868, 39917, 15230720, 2732956, 16603
     , 5636773, 6206336, 28254, 12170253, 2618033, 21234, 10584980, 12894615, 20930, 14839996, 13255230, 28043
     , 11566962, 851599, 55014, 16335046, 7092592, 32214, 726988, 10991002, 26286, 6346537, 16297985, 30204
     , 2359989, 6202267, 48860, 16707029, 6292517, 3523, 1795633, 14545611, 44481, 11442026, 15285818, 8286
     , 13206680, 11854643, 31276, 5670700, 15431533, 32018, 1415678, 10207668, 36403, 11310119, 15770943, 17920
     , 15811332, 13869938, 4169, 2996034, 14688434, 31572, 10704697, 9839218, 54631, 1437892, 1542929, 10145
     , 12803611, 3790361, 27899, 14275718, 7328169, 23737, 5242858, 13563899, 44869, 9642449, 14135994, 19059
     , 12486316, 7031424, 17588, 15267636, 11863417, 10089, 7533426, 1089140, 43869, 15308214, 16490955, 11212
     , 3339939, 2494803, 49152, 5643347, 2653601, 31435, 14224857, 6054028, 8533, 9285139, 13742727, 30513
     , 1705545, 2881004, 12818, 15500391, 6267264, 22827, 10282607, 14792109, 34667, 3441053, 1885627, 18508
     , 3190892, 13386331, 2276, 5055182, 417550, 10086, 8892159, 2450505, 55560, 12867238, 6278271, 14979
     , 8416617, 119500, 62680, 5634105, 6810826, 16855, 15853391, 11140353, 62174, 2232779, 1808198, 29904
     , 10453196, 2624210, 58430, 2732593, 6727312, 23775, 8793305, 5611580, 59606, 953465, 3716493, 14478
     , 16745378, 11159624, 23962, 7126644, 16510541, 5334, 2165226, 14473873, 1062, 13940033, 12176757, 7095
     , 10192133, 328883, 14908, 3225210, 12945451, 13731, 10897210, 9688629, 26503, 2105396, 13270560, 26283
     , 3145761, 16719277, 19088, 5056132, 9451092, 6386, 6883677, 13867919, 8246, 13733064, 1005125, 13897
     , 13850158, 14104202, 37908, 5785726, 565317, 32641, 5497867, 939734, 37851, 341947, 1305238, 1012
     , 7497711, 1554303, 38983, 15627013, 10331301, 27741, 395849, 1629238, 29267, 10101662, 9959655, 10051
     , 9812656, 9853760, 48551, 7890659, 11685980, 25234, 2975539, 11968615, 17695, 4368473, 6353922, 14277
     , 9376803, 5696385, 5406, 12725985, 1672944, 25413, 6059489, 16746298, 37493, 3324266, 14447434, 6028
     , 4500172, 14398018, 65402, 14249436, 9085151, 30289, 463385, 1870977, 5660, 10741468, 13913104, 1412
     , 15314091, 2632201, 10023, 5328573, 14982196, 4760, 1838701, 13654474, 803, 13790150, 13154429, 24690
     , 13856550, 10660648, 14060, 15002154, 8172970, 10903, 9782951, 13908491, 61783, 6692137, 717037, 1238
     , 7226370, 1081362, 13500, 5804401, 15702561, 30327, 15759936, 7959160, 48403, 8331436, 14348469, 12992
     , 6741038, 16587651, 48259, 15102188, 7505604, 27856, 3792010, 8758259, 62292, 2391691, 9602546, 28286
     , 9714606, 10304009, 43473, 14176934, 5347310, 17402, 3293950, 3770884, 63761, 1231849, 903955, 18960
     , 1091218, 14183401, 48687, 9271607, 14166326, 24911, 2971535, 10006953, 56154, 903806, 13778459, 18161
     , 8470326, 13005406, 35828, 2739857, 8980353, 26812, 9395327, 5257954, 65366, 1543397, 1003074, 11118
     , 6654299, 14239724, 43388, 1046217, 747048, 31401, 5808288, 15937009, 60346, 2864915, 9243328, 27252
     , 15217559, 11916825, 57209, 4741993, 4802550, 5779, 11741313, 8737306, 59217, 7626953, 1976170, 8313
     , 13044681, 4210210, 53852, 6742483, 7950734, 3056, 3609054, 6067997, 17885, 12460844, 2910768, 26301
     , 10376138, 2745778, 24696, 14420130, 4279921, 12525, 990521, 8751594, 16339, 3669084, 1708575, 23176
     , 9992783, 3752808, 10169, 11513389, 14966291, 12831, 15941280, 12013696, 50942, 6220733, 7164660, 534
     , 13447113, 6953740, 5378, 12336493, 12489685, 4417, 13006537, 14639215, 64800, 11368644, 14838528, 16473
     , 13022469, 11798990, 1801, 16021733, 2156716, 26864, 14617852, 7852533, 34653, 1454065, 3634997, 26347
     , 8008366, 8563521, 34308, 2177333, 6244314, 8471, 10087643, 15781280, 41087, 14858471, 6231930, 9902
     , 2157303, 7400017, 43424, 3686273, 16706471, 9601, 16394874, 15808497, 18912, 13757538, 3953103, 32745
     , 7831422, 14408871, 11636, 15213567, 10664564, 22061, 14121518, 5211657, 21563, 2313928, 6627631, 14863
     , 7400390, 14941858, 63554, 2661905, 3288170, 17700, 6980982, 5801898, 32897, 16656803, 10310595, 18164
     , 11588488, 3993085, 48329, 15772971, 1181550, 19891, 6638297, 13984627, 7980, 3461471, 4626176, 19556
     , 14095116, 13483989, 13522, 14363365, 9768195, 24984, 11475738, 9746223, 29536, 2459895, 10775199, 8044
     , 5863210, 11550050, 52128, 7070632, 10632589, 9445, 5205359, 14893257, 28816, 5145702, 10649317, 10363
     , 14026736, 821282, 34610, 10350961, 5767760, 17661, 16169546, 624139, 62300, 7851018, 3223791, 27893
     , 11832548, 1473024, 43649, 887624, 5011291, 25759, 10015549, 5669870, 22946, 1073574, 7929981, 25876
     , 7214810, 8864031, 5460, 4213746, 222325, 16669, 6440330, 15807553, 49713, 8246120, 12018495, 20278
     , 8030628, 14420558, 43405, 11326786, 10869358, 21976, 126277, 11832080, 23615, 10945209, 8768687, 23671
     , 7011193, 6946081, 42563, 9700969, 6222094, 8000, 3308399, 4731324, 30047, 15829037, 11959665, 11201
     , 7829456, 1429485, 36523, 14258982, 7394688, 20851, 13228857, 12015361, 2065, 16234017, 8702802, 9037
     , 14345372, 5225949, 38668, 6177249, 14172743, 15272, 6189064, 1010391, 45170, 4977477, 14009624, 10076
     , 13859178, 8599688, 24249, 1164019, 4382686, 6970, 2842445, 4783625, 37989, 2505929, 1553679, 4505
     , 671618, 15291810, 25133, 819188, 3056550, 27221, 5257002, 3150721, 51090, 14579367, 3904792, 6152
     , 3888213, 7658877, 22011, 16745268, 15374960, 21054, 3498609, 10957662, 22932, 3207634, 1177092, 15280
     , 14084732, 3460001, 7876, 15423360, 3315215, 27062, 2014983, 268116, 18117, 13776944, 785401, 327
     , 10208716, 2051076, 59733, 6220013, 4602099, 7186, 15219256, 3838273, 2506, 1118843, 11484788, 17626
     , 3132688, 7437164, 3668, 13996363, 11823910, 20874, 4319283, 13027363, 21130, 2049650, 16423380, 8775
     , 15935394, 812480, 44003, 7856564, 5112107, 15047, 951987, 16607564, 13790, 15076942, 3018943, 31800
     , 12076572, 3680662, 62334, 6495770, 4725843, 19783, 16234417, 1472644, 44175, 10798659, 12282545, 23265
     , 2744192, 153864, 25579, 7946145, 2524714, 25137, 14718983, 2371356, 28190, 15531307, 6369450, 31737
     , 12580618, 15329808, 60869, 9753198, 4727611, 26293, 5058731, 975961, 28871, 1127742, 27784, 31152
     , 7408671, 7941265, 17234, 11138361, 15815041, 3195, 14907292, 6219625, 64665, 14478797, 1862841, 17543
     , 10093675, 769836, 3352, 6098137, 12949700, 21573, 7732116, 3291240, 57083, 6688565, 2315093, 23309
     , 3832179, 15368795, 48669, 12312903, 9356513, 4197, 14120196, 6195194, 18607, 8246932, 13879626, 22005
     , 11365282, 15140396, 43427, 14740017, 11002873, 14016, 1093308, 6627696, 50365, 10466712, 1965195, 7427
     , 1280158, 1839169, 58210, 6972535, 7859742, 30539, 7888855, 5999111, 4684, 8964826, 913793, 23148
     , 7526334, 13456478, 62637, 7055718, 1048502, 14352, 14984400, 13362015, 8448, 5423477, 12463600, 17545
     , 2525599, 2244667, 41018, 12663080, 10526974, 23268, 7954090, 12564482, 35295, 13575474, 8297550, 13457
     , 834483, 3568838, 25785, 3458845, 9982051, 9664, 15611105, 4155121, 35442, 15811044, 712520, 14998
     , 14958779, 3696277, 26015, 8426982, 1032046, 22394, 11687062, 1683700, 36596, 10372699, 7774987, 1089
     , 81519, 7364082, 31384, 11099367, 11683898, 30672, 9371607, 9534359, 12446, 9710719, 15031294, 2289
     , 14029768, 1452472, 64548, 6853791, 3028429, 5135, 15006202, 10447422, 14473, 62389, 9358803, 31420
     , 13778607, 13776133, 54234, 7023740, 4131127, 30183, 968132, 10904502, 22084, 2010825, 14584574, 20762
     , 11258505, 6284513, 47872, 13246316, 14578608, 10296, 862408, 6707384, 32778, 1458668, 12214729, 18602
     , 316642, 5884599, 8743, 8765130, 13877454, 4205, 16162051, 1893185, 41422, 15003152, 11669736, 5713
     , 3399990, 10116721, 18226, 9660345, 3098588, 22720, 8061615, 12211860, 2524, 1203016, 2429304, 17244
     , 13472533, 7971824, 54633, 2817499, 11576898, 12034, 3273517, 1003527, 9106, 3328861, 3351426, 2744
     , 12280027, 13746096, 42931, 7253698, 12755004, 9026, 13969454, 7232020, 44126, 4366923, 4333020, 23450
     , 4448342, 409925, 389, 4805862, 3636232, 28028, 14359789, 16195283, 20363, 11602297, 14401882, 20816
     , 3833791, 662327, 181, 2377477, 15057875, 5131, 5994769, 12577134, 20485, 1261374, 10835387, 30670
     , 11105222, 14789079, 10929, 4810963, 11311153, 14487, 2345411, 7632459, 40463, 1677261, 13351652, 11870
     , 15803443, 15357512, 17378, 583324, 5901896, 14929, 7058243, 7078851, 6099, 8506947, 12387636, 17614
     , 1772918, 8804034, 35072, 39910, 1309881, 12165, 9047683, 4165664, 11810, 13855347, 12768495, 14376
     , 11031165, 14045065, 48919, 5641501, 11807638, 23019, 8242671, 13050972, 32123, 11965932, 6826508, 6427
     , 10459869, 1519533, 35121, 3063247, 7125931, 9115, 11729, 3120295, 30355, 5822645, 346360, 3092
     , 7610021, 14671311, 27770, 14787943, 12892642, 15161, 7616254, 5907960, 50451, 14486240, 9432247, 26893
     , 14291138, 10885356, 55170, 5044274, 8696595, 20266, 13194660, 2060731, 13736, 11428760, 8973668, 17791
     , 4692357, 12000305, 49790, 10136370, 1574998, 19177, 7727889, 15300698, 42482, 3665206, 11639224, 24988
     , 4738624, 5837497, 3710, 14404336, 3270783, 15192, 2818973, 7838765, 18850, 4785690, 8511615, 15691
     , 2274652, 10162082, 43537, 3134690, 1774004, 9820, 14513719, 2680089, 27469, 15049906, 10981389, 15661
     , 15867235, 6653621, 39344, 10612248, 2873830, 19686, 3116178, 15160211, 46705, 9992244, 7872976, 14603
     , 15858735, 8156099, 6879, 4881145, 3582033, 30918, 1996083, 11755489, 44771, 16187351, 1675896, 32701
     , 4028382, 12317750, 16810, 9879402, 16642443, 6951, 10131484, 4857343, 55846, 12631962, 12617008, 14063
     , 8587348, 8792669, 23512, 5695179, 13174246, 9175, 6618575, 3296347, 17699, 3696223, 8337250, 13922
     , 7167652, 5476956, 22095, 9515042, 13403809, 6087, 3866779, 11872852, 63757, 9148747, 3000607, 5401
     , 10405602, 10731943, 32959, 7810764, 11070105, 18684, 989220, 10729868, 65254, 12066338, 13063681, 18088
     , 9002956, 12845736, 11443, 3169506, 16751620, 7453, 5861847, 16677096, 49582, 5931186, 10519467, 31174
     , 12526872, 8112733, 14236, 11782658, 3508617, 9241, 6244110, 2923770, 51652, 11617369, 12766865, 17537
     , 2547402, 14590442, 27396, 13672705, 3993312, 9966, 16404262, 13024472, 58220, 7753661, 7378713, 19732
     , 2092882, 2781295, 57431, 4140737, 16476578, 3957, 6606651, 4916392, 12974, 9717619, 7579931, 2915
     , 13666479, 2867723, 6799, 4200263, 875214, 22635, 12915763, 11572387, 41190, 6865351, 10560450, 5970
     , 7802529, 2790325, 25660, 2026307, 12177847, 21356, 13396799, 337360, 27643, 11399107, 13627075, 8013
     , 12539888, 1482192, 10400, 10703945, 13216288, 4918, 3856289, 10512496, 48077, 12705853, 4686467, 24115
     , 9427698, 7812049, 61849, 8108135, 16058273, 30874, 6903315, 791765, 31127, 4531567, 2310888, 31045
     , 2531352, 16332410, 27666, 10280894, 14294159, 4542, 11733289, 7200548, 29198, 5523285, 15277630, 30470
     , 7114841, 3677498, 17504, 7914532, 9530422, 32257, 13810439, 3496545, 24612, 13134306, 14687609, 26810
     , 6157913, 12386088, 61980, 5753139, 15624939, 759, 2516071, 494615, 52751, 7381251, 5233489, 923
     , 10792475, 1043553, 54750, 7833237, 8000810, 13267, 1105625, 14945898, 60004, 12431891, 3752819, 7965
     , 5897492, 10008303, 63029, 15016579, 2808890, 22418, 7795873, 9494923, 58266, 9084334, 14412761, 10227
     , 3671219, 10344896, 6167, 3026291, 7520657, 20765, 3093029, 16175691, 35041, 12753279, 10066381, 22016
     , 14168036, 16349111, 55917, 4039206, 4635558, 30455, 15809495, 11336763, 2911, 7278104, 15402230, 18993
     , 13623951, 7591399, 35534, 794801, 7543747, 6570, 4195095, 7994995, 43289, 10255519, 13529504, 26517
     , 3604666, 5570963, 37845, 2085197, 15397003, 14416, 15583857, 5946505, 17676, 14657007, 14386315, 7141
     , 13568043, 8208207, 30566, 2407493, 7236680, 26427, 14740845, 12659295, 28450, 6160081, 15102507, 110
     , 9243746, 1294662, 46202, 7923428, 4749731, 16470, 13871960, 11883433, 3014, 5111037, 1866212, 8566
     , 1069307, 7263211, 26355, 14483923, 14619410, 11879, 14414509, 4999784, 18548, 7209884, 9841517, 30788
     , 7911007, 5666259, 57467, 2891248, 6466109, 13154, 9186859, 5662679, 12810, 14310954, 9296237, 20326
     , 8094832, 5667164, 57877, 16264113, 9460526, 12385, 2229942, 3281223, 44773, 883257, 3637230, 8071
     , 11641031, 9196195, 56005, 884733, 5038159, 28220, 10721551, 15484372, 65023, 2810562, 4257694, 19283
     , 13759282, 13154227, 1335, 3534362, 2573486, 21801, 360222, 7147117, 16947, 6075351, 958052, 23236
     , 6178503, 8093572, 33935, 15724880, 11036470, 29885, 11489077, 13591083, 35098, 9856955, 15703283, 5308
     , 3258803, 3493271, 39585, 9823647, 5611922, 10216, 6696656, 10128912, 6786, 4470695, 4454892, 15292
     , 14570305, 9116849, 35834, 13849929, 7831656, 13362, 15882824, 514625, 58328, 15721810, 15604962, 7094
     , 13873148, 12446987, 2265, 11081640, 1856153, 10511, 3115321, 16611670, 55949, 8790303, 11200134, 7159
     , 8783717, 14350780, 10934, 11897355, 7221006, 31727, 4430740, 16427900, 34630, 12291034, 11040592, 382
     , 10263164, 15409699, 63711, 8075795, 12636808, 13774, 2037254, 9743456, 26794, 10884967, 5586827, 29808
     , 15385616, 5214665, 14217, 3667762, 2812803, 21938, 10682004, 14225193, 21496, 6881850, 428780, 2796
     , 6390510, 6382253, 16464, 1987701, 8384940, 27186, 3011528, 7378249, 38541, 16151841, 16015765, 16275
     , 7394630, 12362377, 18819, 7033794, 12136745, 10006, 11991219, 78438, 62507, 6960799, 10160203, 30450
     , 2187849, 7639586, 36392, 12692733, 10605478, 20271, 12122452, 6723562, 3814, 12635365, 4073726, 14275
     , 16588241, 1696442, 32004, 12144042, 5063321, 496, 15058918, 6994881, 24256, 15561385, 13000800, 14884
     , 9834278, 6611295, 3511, 10460218, 7591381, 7513, 7180617, 2492636, 62428, 7533848, 14698011, 7552
     , 13152412, 14470473, 8804, 3362142, 15180358, 7939, 2081453, 3704603, 11630, 2640851, 8957519, 16773
     , 14790562, 465839, 16123, 12441820, 12192896, 1945, 13388406, 7545389, 42674, 9063203, 10422444, 4997
     , 3955403, 11321958, 404, 12316150, 10836944, 17823, 7310529, 5591280, 6917, 10087029, 16438373, 2533
     , 2709667, 1503095, 27449, 9675825, 10862976, 19114, 1111444, 254822, 36373, 10642361, 16076872, 25102
     , 12119228, 9845900, 23080, 4243802, 4633015, 27374, 10288809, 9832181, 26595, 8169649, 7988087, 5029
     , 12291555, 9631260, 17837, 4591275, 9050690, 21254, 3642744, 3491550, 39702, 13453408, 3712974, 1983
     , 2633185, 7799581, 63564, 16224252, 15557529, 16426, 6253893, 14491689, 64387, 863949, 14833460, 14082
     , 10196936, 2984855, 47323, 724049, 2544293, 24949, 3151835, 6453297, 55407, 6266258, 15654597, 12085
     , 1546043, 6900021, 61131, 12251290, 1733856, 31249, 3798589, 7186668, 47148, 8599366, 484114, 16919
     , 14321881, 13705021, 23862, 15902855, 12366688, 31662, 4025531, 11939081, 38953, 14625021, 8007534, 4337
     , 15992358, 16401235, 65086, 1150516, 10683996, 29468, 9832597, 6785063, 24965, 12989788, 435444, 2041
     , 6648130, 10277134, 13853, 14180814, 6112557, 11103, 308890, 1962077, 41952, 16564443, 2341964, 21303
     , 12307637, 8695713, 33283, 6131197, 15286617, 20071, 14759494, 10815545, 3981, 5859688, 10508090, 26759
     , 13529923, 13754202, 59709, 13604552, 7795342, 3392, 8418497, 16274584, 2978, 1720502, 10687652, 24242
     , 7778942, 7153574, 18943, 13963598, 13254828, 5623, 14146197, 16361296, 49521, 7990108, 12486943, 15341
     , 4158719, 3919544, 23396, 3349068, 1766314, 2187, 6341801, 5013002, 56873, 2142545, 7404673, 2567
     , 8132919, 7698956, 61595, 16620680, 9945150, 13495, 2673737, 4119340, 1310, 12915244, 3468378, 26331
     , 14453951, 14734291, 38397, 1579215, 9947154, 31096, 1112221, 7149943, 8148, 16255429, 5265411, 21306
     , 10474001, 1837324, 46607, 6069634, 3439023, 19068, 9237925, 4192844, 19452, 426527, 16033299, 26953
     , 8043740, 13191622, 55316, 6841284, 6173462, 16794, 562656, 4650685, 40422, 5526618, 12666010, 18812
     , 14755570, 3220607, 27115, 6812791, 8594233, 12860, 7869053, 14372157, 21216, 12138508, 14780647, 17056
     , 14896766, 72774, 14955, 10532010, 1477289, 31220, 588365, 665047, 37927, 13225416, 8788171, 11186
     , 6318105, 4635396, 29726, 2943362, 807675, 633, 13676304, 9621702, 28091, 2003986, 9874950, 12970
     , 14257834, 7343248, 4982, 684342, 16672012, 19741, 10157856, 16314104, 45975, 1814071, 11291140, 18486
     , 656056, 1078952, 62332, 8075831, 4170310, 3334, 7044731, 2496437, 18831, 8755805, 1152219, 26095
     , 9436342, 2479570, 53758, 5881987, 15135892, 8846, 635227, 8565680, 27518, 16567292, 1597169, 28987
     , 6341272, 6877695, 21796, 5346836, 10902786, 11131, 530114, 11374847, 35462, 12387045, 2396804, 31737
     , 4992272, 12938823, 12296, 8406336, 7583615, 5908, 14591846, 7983227, 5627, 11572511, 6801337, 26284
     , 13825618, 10574774, 13500, 8216955, 4051560, 5062, 1425820, 11412343, 50453, 16514802, 3958629, 3668
     , 5700446, 8452849, 26252, 10052280, 10369853, 7726, 9756947, 11150915, 35307, 1464783, 14492111, 12842
     , 6397838, 14837555, 63974, 2181104, 16550777, 29243, 8259887, 15893373, 31150, 741393, 1857833, 6822
     , 4824275, 11425642, 39253, 1892570, 7236186, 11325, 11036523, 13607321, 47204, 8398943, 10624784, 18785
     , 10328443, 1592031, 33422, 8185637, 12429694, 3204, 5045445, 4617993, 59031, 4591707, 13465401, 20168
     , 6272454, 8502473, 42118, 10875497, 8911095, 27358, 3784765, 6459357, 39831, 10426434, 975345, 15326
     , 8129697, 13171473, 20216, 8251839, 16316624, 30363, 9066469, 16004535, 51445, 12308380, 8038497, 31128
     , 11542562, 5599748, 32620, 1862097, 14162193, 4507, 4110091, 2027531, 61638, 16481081, 15749403, 17175
     , 5070990, 12141800, 13986, 3369419, 3695322, 7194, 6231925, 16019720, 14299, 7608749, 7675408, 14389
     , 500734, 820411, 1195, 14619552, 9173959, 25461, 5567038, 13765813, 5631, 1381815, 1852459, 8177
     , 9662854, 7860671, 5907, 3487992, 16679608, 24926, 5416801, 8190691, 12830, 2364674, 2369495, 31472
     , 13391263, 7227378, 34388, 6659445, 14196759, 26017, 12573385, 9086392, 51549, 10028579, 8899432, 488
     , 7064637, 15633478, 61944, 10719375, 6180651, 16590, 12675893, 1717376, 53944, 16189645, 6110891, 20834
     , 1070905, 7381520, 17623, 2709664, 15157762, 32541, 15267634, 13179857, 64484, 5792864, 12241683, 8271
     , 3030264, 9476054, 38871, 3453204, 13981977, 21530, 1317129, 4690332, 65019, 5234383, 2549028, 13641
     , 15307952, 11575522, 25233, 10929105, 10119635, 11162, 2322919, 12473392, 33161, 11043277, 13000177, 13893
     , 14911355, 6353989, 57092, 13685358, 8707154, 32419, 4634288, 6256269, 3118, 12965094, 6478503, 8046
     , 2311150, 2536251, 63664, 8206124, 8636534, 11121, 7542039, 13743798, 48453, 4656480, 4008060, 19931
     , 6548706, 14394370, 4145, 5833823, 8364246, 20083, 635989, 10014845, 36028, 12367861, 5318818, 13475
    >>

----------------------------------------------------------------------------
(* The bodies of the point functions, statement by statement *)

fpexp1251_code ==
    << <<"fpsqr1271", <<"a", 0>>, <<"t2", 0>>>>
     , <<"fpmul1271", <<"a", 0>>, <<"t2", 0>>, <<"t2", 0>>>>
     , <<"fpsqr1271", <<"t2", 0>>, <<"t3", 0>>>>
     , <<"fpsqr1271", <<"t3", 0>>, <<"t3", 0>>>>
     , <<"fpmul1271", <<"t2", 0>>, <<"t3", 0>>, <<"t3", 0>>>>
     , <<"fpsqr1271", <<"t3", 0>>, <<"t4", 0>>>>
     , <<"fpsqr1271", <<"t4", 0>>, <<"t4", 0>>>>
     , <<"fpsqr1271", <<"t4", 0>>, <<"t4", 0>>>>
     , <<"fpsqr1271", <<"t4", 0>>, <<"t4", 0>>>>
     , <<"fpmul1271", <<"t3", 0>>, <<"t4", 0>>, <<"t4", 0>>>>
     , <<"fpsqr1271", <<"t4", 0>>, <<"t5", 0>>>>
     , <<"fpsqr1271 x", <<"t5", 0>>, 7>>
     , <<"fpmul1271", <<"t4", 0>>, <<"t5", 0>>, <<"t5", 0>>>>
     , <<"fpsqr1271", <<"t5", 0>>, <<"t2", 0>>>>
     , <<"fpsqr1271 x", <<"t2", 0>>, 15>>
     , <<"fpmul1271", <<"t5", 0>>, <<"t2", 0>>, <<"t2", 0>>>>
     , <<"fpsqr1271", <<"t2", 0>>, <<"t1", 0>>>>
     , <<"fpsqr1271 x", <<"t1", 0>>, 31>>
     , <<"fpmul1271", <<"t2", 0>>, <<"t1", 0>>, <<"t1", 0>>>>
     , <<"fpsqr1271 x", <<"t1", 0>>, 32>>
     , <<"fpmul1271", <<"t1", 0>>, <<"t2", 0>>, <<"t1", 0>>>>
     , <<"fpsqr1271 x", <<"t1", 0>>, 16>>
     , <<"fpmul1271", <<"t5", 0>>, <<"t1", 0>>, <<"t1", 0>>>>
     , <<"fpsqr1271 x", <<"t1", 0>>, 8>>
     , <<"fpmul1271", <<"t4", 0>>, <<"t1", 0>>, <<"t1", 0>>>>
     , <<"fpsqr1271 x", <<"t1", 0>>, 4>>
     , <<"fpmul1271", <<"t3", 0>>, <<"t1", 0>>, <<"t1", 0>>>>
     , <<"fpsqr1271", <<"t1", 0>>, <<"t1", 0>>>>
     , <<"fpmul1271", <<"a", 0>>, <<"t1", 0>>, <<"af", 0>>>>
    >>

eccnorm_code ==
    << <<"fpsqr1271", <<"P", "z", 0>>, <<"t1", 0>>>>
     , <<"fpsqr1271", <<"P", "z", 1>>, <<"t1", 1>>>>
     , <<"fpadd1271", <<"t1", 0>>, <<"t1", 1>>, <<"t1", 0>>>>
     , <<"fpexp1251", <<"t1", 0>>, <<"t1", 1>>>>
     , <<"fpsqr1271", <<"t1", 1>>, <<"t1", 1>>>>
     , <<"fpsqr1271", <<"t1", 1>>, <<"t1", 1>>>>
     , <<"fpmul1271", <<"t1", 0>>, <<"t1", 1>>, <<"t1", 0>>>>
     , <<"fpneg1271", <<"P", "z", 1>>>>
     , <<"fpmul1271", <<"P", "z", 0>>, <<"t1", 0>>, <<"P", "z", 0>>>>
     , <<"fpmul1271", <<"P", "z", 1>>, <<"t1", 0>>, <<"P", "z", 1>>>>
     , <<"fp2mul1271", <<"P", "x">>, <<"P", "z">>, <<"Q", "x">>>>
     , <<"fp2mul1271", <<"P", "y">>, <<"P", "z">>, <<"Q", "y">>>>
     , <<"mod1271", <<"Q", "x", 0>>>>
     , <<"mod1271", <<"Q", "x", 1>>>>
     , <<"mod1271", <<"Q", "y", 0>>>>
     , <<"mod1271", <<"Q", "y", 1>>>>
    >>

R1_to_R2_code ==
    << <<"fp2add1271", <<"P", "ta">>, <<"P", "ta">>, <<"Q", "t2">>>>
     , <<"fp2add1271", <<"P", "x">>, <<"P", "y">>, <<"Q", "xy">>>>
     , <<"fp2sub1271", <<"P", "y">>, <<"P", "x">>, <<"Q", "yx">>>>
     , <<"fp2mul1271", <<"Q", "t2">>, <<"P", "tb">>, <<"Q", "t2">>>>
     , <<"fp2add1271", <<"P", "z">>, <<"P", "z">>, <<"Q", "z2">>>>
     , <<"fp2mul1271", <<"Q", "t2">>, <<"PARAMETER_d">>, <<"Q", "t2">>>>
    >>

R1_to_R3_code ==
    << <<"fp2add1271", <<"P", "x">>, <<"P", "y">>, <<"Q", "xy">>>>
     , <<"fp2sub1271", <<"P", "y">>, <<"P", "x">>, <<"Q", "yx">>>>
     , <<"fp2mul1271", <<"P", "ta">>, <<"P", "tb">>, <<"Q", "t2">>>>
     , <<"copy32", <<"Q", "z2">>, <<"P", "z">>>>
    >>

R2_to_R4_code ==
    << <<"fp2sub1271", <<"P", "xy">>, <<"P", "yx">>, <<"Q", "x">>>>
     , <<"fp2add1271", <<"P", "xy">>, <<"P", "yx">>, <<"Q", "y">>>>
     , <<"copy32", <<"Q", "z">>, <<"P", "z2">>>>
    >>

eccdouble_code ==
    << <<"fp2sqr1271", <<"P", "x">>, <<"t1">>>>
     , <<"fp2sqr1271", <<"P", "y">>, <<"t2">>>>
     , <<"fp2add1271", <<"P", "x">>, <<"P", "y">>, <<"P", "x">>>>
     , <<"fp2add1271", <<"t1">>, <<"t2">>, <<"P", "tb">>>>
     , <<"fp2sub1271", <<"t2">>, <<"t1">>, <<"t1">>>>
     , <<"fp2sqr1271", <<"P", "x">>, <<"P", "ta">>>>
     , <<"fp2sqr1271", <<"P", "z">>, <<"t2">>>>
     , <<"fp2sub1271", <<"P", "ta">>, <<"P", "tb">>, <<"P", "ta">>>>
     , <<"fp2addsub1271", <<"t2">>, <<"t1">>, <<"t2">>>>
     , <<"fp2mul1271", <<"t1">>, <<"P", "tb">>, <<"P", "y">>>>
     , <<"fp2mul1271", <<"t2">>, <<"P", "ta">>, <<"P", "x">>>>
     , <<"fp2mul1271", <<"t1">>, <<"t2">>, <<"P", "z">>>>
    >>

eccadd_core_code ==
    << <<"fp2mul1271", <<"P", "t2">>, <<"Q", "t2">>, <<"R", "z">>>>
     , <<"fp2mul1271", <<"P", "z2">>, <<"Q", "z2">>, <<"t1">>>>
     , <<"fp2mul1271", <<"P", "xy">>, <<"Q", "xy">>, <<"R", "x">>>>
     , <<"fp2mul1271", <<"P", "yx">>, <<"Q", "yx">>, <<"R", "y">>>>
     , <<"fp2sub1271", <<"t1">>, <<"R", "z">>, <<"t2">>>>
     , <<"fp2add1271", <<"t1">>, <<"R", "z">>, <<"t1">>>>
     , <<"fp2sub1271", <<"R", "x">>, <<"R", "y">>, <<"R", "tb">>>>
     , <<"fp2add1271", <<"R", "x">>, <<"R", "y">>, <<"R", "ta">>>>
     , <<"fp2mul1271", <<"R", "tb">>, <<"t2">>, <<"R", "x">>>>
     , <<"fp2mul1271", <<"t1">>, <<"t2">>, <<"R", "z">>>>
     , <<"fp2mul1271", <<"R", "ta">>, <<"t1">>, <<"R", "y">>>>
    >>

point_setup_code ==
    << <<"copy32", <<"Q", "x">>, <<"P", "x">>>>
     , <<"copy32", <<"Q", "y">>, <<"P", "y">>>>
     , <<"copy32", <<"Q", "ta">>, <<"Q", "x">>>>
     , <<"copy32", <<"Q", "tb">>, <<"Q", "y">>>>
     , <<"= 1", <<"Q", "z">>>>
    >>

ecc_point_validate_code ==
    << <<"fp2sqr1271", <<"P", "y">>, <<"t1">>>>
     , <<"fp2sqr1271", <<"P", "x">>, <<"t2">>>>
     , <<"fp2sub1271", <<"t1">>, <<"t2">>, <<"t3">>>>
     , <<"fp2mul1271", <<"t1">>, <<"t2">>, <<"t1">>>>
     , <<"fp2mul1271", <<"t1">>, <<"PARAMETER_d">>, <<"t2">>>>
     , <<"= 1", <<"t1">>>>
     , <<"fp2add1271", <<"t2">>, <<"t1">>, <<"t2">>>>
     , <<"fp2sub1271", <<"t3">>, <<"t2">>, <<"t1">>>>
    >>

eccmadd_code ==
    << <<"fp2mul1271", <<"P", "ta">>, <<"P", "tb">>, <<"P", "ta">>>>
     , <<"fp2add1271", <<"P", "z">>, <<"P", "z">>, <<"t1">>>>
     , <<"fp2mul1271", <<"P", "ta">>, <<"Q", "t2">>, <<"P", "ta">>>>
     , <<"fp2add1271", <<"P", "x">>, <<"P", "y">>, <<"P", "z">>>>
     , <<"fp2sub1271", <<"P", "y">>, <<"P", "x">>, <<"P", "tb">>>>
     , <<"fp2sub1271", <<"t1">>, <<"P", "ta">>, <<"t2">>>>
     , <<"fp2add1271", <<"t1">>, <<"P", "ta">>, <<"t1">>>>
     , <<"fp2mul1271", <<"Q", "xy">>, <<"P", "z">>, <<"P", "ta">>>>
     , <<"fp2mul1271", <<"Q", "yx">>, <<"P", "tb">>, <<"P", "x">>>>
     , <<"fp2mul1271", <<"t1">>, <<"t2">>, <<"P", "z">>>>
     , <<"fp2sub1271", <<"P", "ta">>, <<"P", "x">>, <<"P", "tb">>>>
     , <<"fp2add1271", <<"P", "ta">>, <<"P", "x">>, <<"P", "ta">>>>
     , <<"fp2mul1271", <<"P", "tb">>, <<"t2">>, <<"P", "x">>>>
     , <<"fp2mul1271", <<"P", "ta">>, <<"t1">>, <<"P", "y">>>>
    >>

ecc_tau_code ==
    << <<"fp2sqr1271", <<"P", "x">>, <<"t0">>>>
     , <<"fp2sqr1271", <<"P", "y">>, <<"t1">>>>
     , <<"fp2mul1271", <<"P", "x">>, <<"P", "y">>, <<"P", "x">>>>
     , <<"fp2sqr1271", <<"P", "z">>, <<"P", "y">>>>
     , <<"fp2add1271", <<"t0">>, <<"t1">>, <<"P", "z">>>>
     , <<"fp2sub1271", <<"t1">>, <<"t0">>, <<"t0">>>>
     , <<"fp2add1271", <<"P", "y">>, <<"P", "y">>, <<"P", "y">>>>
     , <<"fp2mul1271", <<"P", "x">>, <<"t0">>, <<"P", "x">>>>
     , <<"fp2sub1271", <<"P", "y">>, <<"t0">>, <<"P", "y">>>>
     , <<"fp2mul1271", <<"P", "x">>, <<"ctau1">>, <<"P", "x">>>>
     , <<"fp2mul1271", <<"P", "y">>, <<"P", "z">>, <<"P", "y">>>>
     , <<"fp2mul1271", <<"P", "z">>, <<"t0">>, <<"P", "z">>>>
    >>

ecc_tau_dual_code ==
    << <<"fp2sqr1271", <<"P", "x">>, <<"t0">>>>
     , <<"fp2sqr1271", <<"P", "z">>, <<"P", "ta">>>>
     , <<"fp2sqr1271", <<"P", "y">>, <<"t1">>>>
     , <<"fp2add1271", <<"P", "ta">>, <<"P", "ta">>, <<"P", "z">>>>
     , <<"fp2sub1271", <<"t1">>, <<"t0">>, <<"P", "ta">>>>
     , <<"fp2add1271", <<"t0">>, <<"t1">>, <<"t0">>>>
     , <<"fp2mul1271", <<"P", "x">>, <<"P", "y">>, <<"P", "x">>>>
     , <<"fp2sub1271", <<"P", "z">>, <<"P", "ta">>, <<"P", "z">>>>
     , <<"fp2mul1271", <<"P", "x">>, <<"ctaudual1">>, <<"P", "tb">>>>
     , <<"fp2mul1271", <<"P", "z">>, <<"P", "ta">>, <<"P", "y">>>>
     , <<"fp2mul1271", <<"P", "tb">>, <<"t0">>, <<"P", "x">>>>
     , <<"fp2mul1271", <<"P", "z">>, <<"t0">>, <<"P", "z">>>>
    >>

ecc_delphidel_code ==
    << <<"fp2sqr1271", <<"P", "z">>, <<"t4">>>>
     , <<"fp2mul1271", <<"P", "y">>, <<"P", "z">>, <<"t3">>>>
     , <<"fp2mul1271", <<"t4">>, <<"cphi4">>, <<"t0">>>>
     , <<"fp2sqr1271", <<"P", "y">>, <<"t2">>>>
     , <<"fp2add1271", <<"t0">>, <<"t2">>, <<"t0">>>>
     , <<"fp2mul1271", <<"t3">>, <<"cphi3">>, <<"t1">>>>
     , <<"fp2sub1271", <<"t0">>, <<"t1">>, <<"t5">>>>
     , <<"fp2add1271", <<"t0">>, <<"t1">>, <<"t0">>>>
     , <<"fp2mul1271", <<"t0">>, <<"P", "z">>, <<"t0">>>>
     , <<"fp2mul1271", <<"t3">>, <<"cphi1">>, <<"t1">>>>
     , <<"fp2mul1271", <<"t0">>, <<"t5">>, <<"t0">>>>
     , <<"fp2mul1271", <<"t4">>, <<"cphi2">>, <<"t5">>>>
     , <<"fp2add1271", <<"t2">>, <<"t5">>, <<"t5">>>>
     , <<"fp2sub1271", <<"t1">>, <<"t5">>, <<"t6">>>>
     , <<"fp2add1271", <<"t1">>, <<"t5">>, <<"t1">>>>
     , <<"fp2mul1271", <<"t6">>, <<"t1">>, <<"t6">>>>
     , <<"fp2mul1271", <<"t6">>, <<"cphi0">>, <<"t6">>>>
     , <<"fp2mul1271", <<"P", "x">>, <<"t6">>, <<"P", "x">>>>
     , <<"fp2sqr1271", <<"t2">>, <<"t6">>>>
     , <<"fp2sqr1271", <<"t3">>, <<"t2">>>>
     , <<"fp2sqr1271", <<"t4">>, <<"t3">>>>
     , <<"fp2mul1271", <<"t2">>, <<"cphi8">>, <<"t1">>>>
     , <<"fp2mul1271", <<"t3">>, <<"cphi9">>, <<"t5">>>>
     , <<"fp2add1271", <<"t1">>, <<"t6">>, <<"t1">>>>
     , <<"fp2mul1271", <<"t2">>, <<"cphi6">>, <<"t2">>>>
     , <<"fp2mul1271", <<"t3">>, <<"cphi7">>, <<"t3">>>>
     , <<"fp2add1271", <<"t1">>, <<"t5">>, <<"t1">>>>
     , <<"fp2add1271", <<"t2">>, <<"t3">>, <<"t2">>>>
     , <<"fp2mul1271", <<"t1">>, <<"P", "y">>, <<"t1">>>>
     , <<"fp2add1271", <<"t6">>, <<"t2">>, <<"P", "y">>>>
     , <<"fp2mul1271", <<"P", "x">>, <<"t1">>, <<"P", "x">>>>
     , <<"fp2mul1271", <<"P", "y">>, <<"cphi5">>, <<"P", "y">>>>
     , <<"fpneg1271", <<"P", "x", 1>>>>
     , <<"fp2mul1271", <<"P", "y">>, <<"P", "z">>, <<"P", "y">>>>
     , <<"fp2mul1271", <<"t0">>, <<"t1">>, <<"P", "z">>>>
     , <<"fp2mul1271", <<"P", "y">>, <<"t0">>, <<"P", "y">>>>
     , <<"fpneg1271", <<"P", "z", 1>>>>
     , <<"fpneg1271", <<"P", "y", 1>>>>
    >>

ecc_delpsidel_code ==
    << <<"fpneg1271", <<"P", "x", 1>>>>
     , <<"fpneg1271", <<"P", "z", 1>>>>
     , <<"fpneg1271", <<"P", "y", 1>>>>
     , <<"fp2sqr1271", <<"P", "z">>, <<"t2">>>>
     , <<"fp2sqr1271", <<"P", "x">>, <<"t0">>>>
     , <<"fp2mul1271", <<"P", "x">>, <<"t2">>, <<"P", "x">>>>
     , <<"fp2mul1271", <<"t2">>, <<"cpsi2">>, <<"P", "z">>>>
     , <<"fp2mul1271", <<"t2">>, <<"cpsi3">>, <<"t1">>>>
     , <<"fp2mul1271", <<"t2">>, <<"cpsi4">>, <<"t2">>>>
     , <<"fp2add1271", <<"t0">>, <<"P", "z">>, <<"P", "z">>>>
     , <<"fp2add1271", <<"t0">>, <<"t2">>, <<"t2">>>>
     , <<"fp2add1271", <<"t0">>, <<"t1">>, <<"t1">>>>
     , <<"fp2neg1271", <<"t2">>>>
     , <<"fp2mul1271", <<"P", "z">>, <<"P", "y">>, <<"P", "z">>>>
     , <<"fp2mul1271", <<"P", "x">>, <<"t2">>, <<"P", "x">>>>
     , <<"fp2mul1271", <<"t1">>, <<"P", "z">>, <<"P", "y">>>>
     , <<"fp2mul1271", <<"P", "x">>, <<"cpsi1">>, <<"P", "x">>>>
     , <<"fp2mul1271", <<"P", "z">>, <<"t2">>, <<"P", "z">>>>
    >>

eccneg_extproj_precomp_code ==
    << <<"copy32", <<"Q", "t2">>, <<"P", "t2">>>>
     , <<"copy32", <<"Q", "yx">>, <<"P", "xy">>>>
     , <<"copy32", <<"Q", "xy">>, <<"P", "yx">>>>
     , <<"copy32", <<"Q", "z2">>, <<"P", "z2">>>>
     , <<"fp2neg1271", <<"Q", "t2">>>>
    >>

eccneg_precomp_code ==
    << <<"copy32", <<"Q", "t2">>, <<"P", "t2">>>>
     , <<"copy32", <<"Q", "yx">>, <<"P", "xy">>>>
     , <<"copy32", <<"Q", "xy">>, <<"P", "yx">>>>
     , <<"fp2neg1271", <<"Q", "t2">>>>
    >>

decode_code1 ==
    << <<"fp2sqr1271", <<"P", "y">>, <<"u">>>>
     , <<"fp2mul1271", <<"u">>, <<"PARAMETER_d">>, <<"v">>>>
     , <<"fp2sub1271", <<"u">>, <<"ONE">>, <<"u">>>>
     , <<"fp2add1271", <<"v">>, <<"ONE">>, <<"v">>>>
     , <<"fpsqr1271", <<"v", 0>>, <<"t0", 0>>>>
     , <<"fpsqr1271", <<"v", 1>>, <<"t1", 0>>>>
     , <<"fpadd1271", <<"t0", 0>>, <<"t1", 0>>, <<"t0", 0>>>>
     , <<"fpmul1271", <<"u", 0>>, <<"v", 0>>, <<"t1", 0>>>>
     , <<"fpmul1271", <<"u", 1>>, <<"v", 1>>, <<"t2", 0>>>>
     , <<"fpadd1271", <<"t1", 0>>, <<"t2", 0>>, <<"t1", 0>>>>
     , <<"fpmul1271", <<"u", 1>>, <<"v", 0>>, <<"t2", 0>>>>
     , <<"fpmul1271", <<"u", 0>>, <<"v", 1>>, <<"t3", 0>>>>
     , <<"fpsub1271", <<"t2", 0>>, <<"t3", 0>>, <<"t2", 0>>>>
     , <<"fpsqr1271", <<"t1", 0>>, <<"t3", 0>>>>
     , <<"fpsqr1271", <<"t2", 0>>, <<"t4", 0>>>>
     , <<"fpadd1271", <<"t3", 0>>, <<"t4", 0>>, <<"t3", 0>>>>
     , <<"fpsqr1271 x", <<"t3", 0>>, 125>>
     , <<"fpadd1271", <<"t1", 0>>, <<"t3", 0>>, <<"t", 0>>>>
    >>

decode_code2 ==
    << <<"fpadd1271", <<"t", 0>>, <<"t", 0>>, <<"t", 0>>>>
     , <<"fpsqr1271", <<"t0", 0>>, <<"t3", 0>>>>
     , <<"fpmul1271", <<"t0", 0>>, <<"t3", 0>>, <<"t3", 0>>>>
     , <<"fpmul1271", <<"t", 0>>, <<"t3", 0>>, <<"t3", 0>>>>
     , <<"fpexp1251", <<"t3", 0>>, <<"r", 0>>>>
     , <<"fpmul1271", <<"t0", 0>>, <<"r", 0>>, <<"t3", 0>>>>
     , <<"fpmul1271", <<"t", 0>>, <<"t3", 0>>, <<"P", "x", 0>>>>
     , <<"fpsqr1271", <<"P", "x", 0>>, <<"t1", 0>>>>
     , <<"fpmul1271", <<"t0", 0>>, <<"t1", 0>>, <<"t1", 0>>>>
    >>

\* ecc_mul_fixed from its first table lookup on.  <<"table_lookup_fixed_base", o, a, b, c, d, s>>
\* is table_lookup_fixed_base(S, o + (((((digits[a] << 1) + digits[b]) << 1) + digits[c]) << 1)
\* + digits[d], digits[s]), and s = -1 the call whose last argument is the literal 0.
ecc_mul_fixed_code ==
    << <<"table_lookup_fixed_base", 64, 249, 199, 149, 99, -1>>
     , <<"fp2sub1271", <<"S", "xy">>, <<"S", "yx">>, <<"R", "x">>>>
     , <<"fp2add1271", <<"S", "xy">>, <<"S", "yx">>, <<"R", "y">>>>
     , <<"fp2div1271", <<"R", "x">>>>
     , <<"fp2div1271", <<"R", "y">>>>
     , <<"= 1", <<"R", "z">>>>
     , <<"copy32", <<"R", "ta">>, <<"R", "x">>>>
     , <<"copy32", <<"R", "tb">>, <<"R", "y">>>>
     , <<"table_lookup_fixed_base", 48, 239, 189, 139, 89, 39>>
     , <<"eccmadd">>
     , <<"table_lookup_fixed_base", 32, 229, 179, 129, 79, 29>>
     , <<"eccmadd">>
     , <<"table_lookup_fixed_base", 16, 219, 169, 119, 69, 19>>
     , <<"eccmadd">>
     , <<"table_lookup_fixed_base", 0, 209, 159, 109, 59, 9>>
     , <<"eccmadd">>
     , <<"eccdouble">>
     , <<"table_lookup_fixed_base", 64, 248, 198, 148, 98, 48>>
     , <<"eccmadd">>
     , <<"table_lookup_fixed_base", 48, 238, 188, 138, 88, 38>>
     , <<"eccmadd">>
     , <<"table_lookup_fixed_base", 32, 228, 178, 128, 78, 28>>
     , <<"eccmadd">>
     , <<"table_lookup_fixed_base", 16, 218, 168, 118, 68, 18>>
     , <<"eccmadd">>
     , <<"table_lookup_fixed_base", 0, 208, 158, 108, 58, 8>>
     , <<"eccmadd">>
     , <<"eccdouble">>
     , <<"table_lookup_fixed_base", 64, 247, 197, 147, 97, 47>>
     , <<"eccmadd">>
     , <<"table_lookup_fixed_base", 48, 237, 187, 137, 87, 37>>
     , <<"eccmadd">>
     , <<"table_lookup_fixed_base", 32, 227, 177, 127, 77, 27>>
     , <<"eccmadd">>
     , <<"table_lookup_fixed_base", 16, 217, 167, 117, 67, 17>>
     , <<"eccmadd">>
     , <<"table_lookup_fixed_base", 0, 207, 157, 107, 57, 7>>
     , <<"eccmadd">>
     , <<"eccdouble">>
     , <<"table_lookup_fixed_base", 64, 246, 196, 146, 96, 46>>
     , <<"eccmadd">>
     , <<"table_lookup_fixed_base", 48, 236, 186, 136, 86, 36>>
     , <<"eccmadd">>
     , <<"table_lookup_fixed_base", 32, 226, 176, 126, 76, 26>>
     , <<"eccmadd">>
     , <<"table_lookup_fixed_base", 16, 216, 166, 116, 66, 16>>
     , <<"eccmadd">>
     , <<"table_lookup_fixed_base", 0, 206, 156, 106, 56, 6>>
     , <<"eccmadd">>
     , <<"eccdouble">>
     , <<"table_lookup_fixed_base", 64, 245, 195, 145, 95, 45>>
     , <<"eccmadd">>
     , <<"table_lookup_fixed_base", 48, 235, 185, 135, 85, 35>>
     , <<"eccmadd">>
     , <<"table_lookup_fixed_base", 32, 225, 175, 125, 75, 25>>
     , <<"eccmadd">>
     , <<"table_lookup_fixed_base", 16, 215, 165, 115, 65, 15>>
     , <<"eccmadd">>
     , <<"table_lookup_fixed_base", 0, 205, 155, 105, 55, 5>>
     , <<"eccmadd">>
     , <<"eccdouble">>
     , <<"table_lookup_fixed_base", 64, 244, 194, 144, 94, 44>>
     , <<"eccmadd">>
     , <<"table_lookup_fixed_base", 48, 234, 184, 134, 84, 34>>
     , <<"eccmadd">>
     , <<"table_lookup_fixed_base", 32, 224, 174, 124, 74, 24>>
     , <<"eccmadd">>
     , <<"table_lookup_fixed_base", 16, 214, 164, 114, 64, 14>>
     , <<"eccmadd">>
     , <<"table_lookup_fixed_base", 0, 204, 154, 104, 54, 4>>
     , <<"eccmadd">>
     , <<"eccdouble">>
     , <<"table_lookup_fixed_base", 64, 243, 193, 143, 93, 43>>
     , <<"eccmadd">>
     , <<"table_lookup_fixed_base", 48, 233, 183, 133, 83, 33>>
     , <<"eccmadd">>
     , <<"table_lookup_fixed_base", 32, 223, 173, 123, 73, 23>>
     , <<"eccmadd">>
     , <<"table_lookup_fixed_base", 16, 213, 163, 113, 63, 13>>
     , <<"eccmadd">>
     , <<"table_lookup_fixed_base", 0, 203, 153, 103, 53, 3>>
     , <<"eccmadd">>
     , <<"eccdouble">>
     , <<"table_lookup_fixed_base", 64, 242, 192, 142, 92, 42>>
     , <<"eccmadd">>
     , <<"table_lookup_fixed_base", 48, 232, 182, 132, 82, 32>>
     , <<"eccmadd">>
     , <<"table_lookup_fixed_base", 32, 222, 172, 122, 72, 22>>
     , <<"eccmadd">>
     , <<"table_lookup_fixed_base", 16, 212, 162, 112, 62, 12>>
     , <<"eccmadd">>
     , <<"table_lookup_fixed_base", 0, 202, 152, 102, 52, 2>>
     , <<"eccmadd">>
     , <<"eccdouble">>
     , <<"table_lookup_fixed_base", 64, 241, 191, 141, 91, 41>>
     , <<"eccmadd">>
     , <<"table_lookup_fixed_base", 48, 231, 181, 131, 81, 31>>
     , <<"eccmadd">>
     , <<"table_lookup_fixed_base", 32, 221, 171, 121, 71, 21>>
     , <<"eccmadd">>
     , <<"table_lookup_fixed_base", 16, 211, 161, 111, 61, 11>>
     , <<"eccmadd">>
     , <<"table_lookup_fixed_base", 0, 201, 151, 101, 51, 1>>
     , <<"eccmadd">>
     , <<"eccdouble">>
     , <<"table_lookup_fixed_base", 64, 240, 190, 140, 90, 40>>
     , <<"eccmadd">>
     , <<"table_lookup_fixed_base", 48, 230, 180, 130, 80, 30>>
     , <<"eccmadd">>
     , <<"table_lookup_fixed_base", 32, 220, 170, 120, 70, 20>>
     , <<"eccmadd">>
     , <<"table_lookup_fixed_base", 16, 210, 160, 110, 60, 10>>
     , <<"eccmadd">>
     , <<"table_lookup_fixed_base", 0, 200, 150, 100, 50, 0>>
     , <<"eccmadd">>
     , <<"eccnorm">>
    >>


----------------------------------------------------------------------------
(* GF(2^127-1): felm_t is a pair of words <<a[0], a[1]>> *)

MASK63 == <<255, 255, 255, 255, 255, 255, 255, 127>>
ALLONES == <<255, 255, 255, 255, 255, 255, 255, 255>>
ZERO64 == <<0, 0, 0, 0, 0, 0, 0, 0>>
ONE64 == <<1, 0, 0, 0, 0, 0, 0, 0>>

\* w >> 63, w & 0x7FFFFFFFFFFFFFFF, w << 1, w >> 1 on a word
Shr63(w) == <<w[8] \div 128, 0, 0, 0, 0, 0, 0, 0>>
And63(w) == [w EXCEPT ![8] = @ % 128]
Shl1(w) ==
    <<(w[1] * 2) % 256, ((w[2] * 2) % 256) + (w[1] \div 128), ((w[3] * 2) % 256) + (w[2] \div 128),
      ((w[4] * 2) % 256) + (w[3] \div 128), ((w[5] * 2) % 256) + (w[4] \div 128),
      ((w[6] * 2) % 256) + (w[5] \div 128), ((w[7] * 2) % 256) + (w[6] \div 128),
      ((w[8] * 2) % 256) + (w[7] \div 128)>>
Shr1(w) ==
    <<(w[1] \div 2) + ((w[2] % 2) * 128), (w[2] \div 2) + ((w[3] % 2) * 128), (w[3] \div 2) + ((w[4] % 2) * 128),
      (w[4] \div 2) + ((w[5] % 2) * 128), (w[5] \div 2) + ((w[6] % 2) * 128),
      (w[6] \div 2) + ((w[7] % 2) * 128), (w[7] \div 2) + ((w[8] % 2) * 128), w[8] \div 2>>

\* the 128-bit addition and subtraction the code writes as two nested intrinsics:
\* _addcarry_u64(_addcarry_u64(0, a0, b0, &c0), a1, b1, &c1)
AddCarry2(a0, b0, a1, b1) ==
    LET lo == Call("_addcarry_u64", <<0, a0, b0>>)
        hi == Call("_addcarry_u64", <<lo.c, a1, b1>>)
    IN <<lo.v, hi.v>>
SubBorrow2(a0, b0, a1, b1) ==
    LET lo == Call("_subborrow_u64", <<0, a0, b0>>)
        hi == Call("_subborrow_u64", <<lo.c, a1, b1>>)
    IN <<lo.v, hi.v>>

mod1271(a) ==
    LET d == SubBorrow2(a[1], ALLONES, a[2], MASK63)
        mask == IF d[2][8] >= 128 THEN ALLONES ELSE ZERO64
    IN AddCarry2(d[1], mask, d[2], And63(mask))

\* the reduction both fpadd1271 and fpmul1271 end with: fold bit 127 into bit 0
FoldAdd(c) == AddCarry2(c[1], Shr63(c[2]), And63(c[2]), ZERO64)
FoldSub(c) == SubBorrow2(c[1], Shr63(c[2]), And63(c[2]), ZERO64)

\* fpadd1271 without the fold of line 1069
fpadd1271_NoFold(a, b) == AddCarry2(a[1], b[1], a[2], b[2])

fpadd1271(a, b) == FoldAdd(AddCarry2(a[1], b[1], a[2], b[2]))

fpsub1271(a, b) == FoldSub(SubBorrow2(a[1], b[1], a[2], b[2]))

fpneg1271(a) == <<NotBytes(a[1]), Sub64(MASK63, a[2])>>

\* lines 1140-1143 of fpmul1271 and 1155-1158 of fpsqr1271, which are the same:
\* tt1[0] is the low word of a0*b0, tt2 the middle 128 bits, tt3 = a1*b1
fpmulTail(tt1_0, tt2, tt3) ==
    LET u == Call("AddCarry2", <<__shiftright128(tt2[1], tt2[2], 63), Shl1(tt3[1]), Shr63(tt2[2]),
                                __shiftleft128(tt3[1], tt3[2], 1)>>)
    IN FoldAdd(Call("AddCarry2", <<tt1_0, u[1], And63(tt2[1]), u[2]>>))

fpmul1271(a, b) ==
    LET m00 == Call("_umul128", <<a[1], b[1]>>)
        m01 == Call("_umul128", <<a[1], b[2]>>)
        m10 == Call("_umul128", <<a[2], b[1]>>)
        m11 == Call("_umul128", <<a[2], b[2]>>)
        s == AddCarry2(m01.lo, m00.hi, m01.hi, ZERO64)
        tt2 == AddCarry2(s[1], m10.lo, s[2], m10.hi)
    IN Call("fpmulTail", <<m00.lo, tt2, <<m11.lo, m11.hi>>>>)

fpsqr1271(a) ==
    LET m00 == Call("_umul128", <<a[1], a[1]>>)
        m01 == Call("_umul128", <<a[1], a[2]>>)
        m11 == Call("_umul128", <<a[2], a[2]>>)
        tt3 == AddCarry2(m01.lo, m00.hi, m01.hi, ZERO64)
        tt2 == AddCarry2(m01.lo, tt3[1], m01.hi, tt3[2])
    IN Call("fpmulTail", <<m00.lo, tt2, <<m11.lo, m11.hi>>>>)

\* for (i = 0; i < n; i++) fpsqr1271(a, a), n >= 1
RECURSIVE fpsqr1271_times(_, _)
fpsqr1271_times(a, n) ==
    IF n = 1 THEN Call("fpsqr1271", <<a>>)
    ELSE LET h == fpsqr1271_times(a, n \div 2) IN Then(h, fpsqr1271_times(h, n - (n \div 2)))

\* x := x / 2 mod p as fp2div1271 and decode write it
fpdiv1271(a) ==
    LET mask == IF a[1][1] % 2 = 1 THEN ALLONES ELSE ZERO64
        temp == AddCarry2(a[1], mask, a[2], Shr1(mask))
    IN <<__shiftright128(temp[1], temp[2], 1), Shr1(temp[2])>>

----------------------------------------------------------------------------
(* GF(p^2): f2elm_t is a pair of felm_t <<a[0], a[1]>> *)

fp2div1271(a) == <<fpdiv1271(a[1]), fpdiv1271(a[2])>>

fp2neg1271(a) == <<fpneg1271(a[1]), fpneg1271(a[2])>>

fp2sqr1271(a) ==
    LET t1 == fpadd1271(a[1], a[2])
        t2 == fpsub1271(a[1], a[2])
        t3 == Call("fpmul1271", <<a[1], a[2]>>)
    IN <<Call("fpmul1271", <<t1, t2>>), Call("fpadd1271", <<t3, t3>>)>>

fp2mul1271(a, b) ==
    LET t1 == Call("fpmul1271", <<a[1], b[1]>>)
        t2 == Call("fpmul1271", <<a[2], b[2]>>)
        t3 == fpadd1271(a[1], a[2])
        t4 == fpadd1271(b[1], b[2])
        t5 == Call("fpmul1271", <<t3, t4>>)
        t6 == Call("fpsub1271", <<t5, t1>>)
    IN <<Call("fpsub1271", <<t1, t2>>), Call("fpsub1271", <<t6, t2>>)>>

fp2add1271(a, b) == <<fpadd1271(a[1], b[1]), fpadd1271(a[2], b[2])>>

fp2sub1271(a, b) == <<fpsub1271(a[1], b[1]), fpsub1271(a[2], b[2])>>

----------------------------------------------------------------------------
(* Straight-line field code                                                *)
(*                                                                         *)
(* The bodies of the point functions are sequences of calls of the field   *)
(* functions on the fields of their arguments and on local variables.      *)
(* Each body is kept as the list of its statements, in order, and run by   *)
(* Exec on a store of f2elm_t variables: <<"P", "x">> is P->x, <<"t1">>    *)
(* the local t1; an felm_t operand adds the index, <<"P", "z", 1>> being   *)
(* P->z[1].  A statement writes its destination after it has read its      *)
(* operands, as the field functions do, so an operand may be the           *)
(* destination.                                                            *)

\* a function with its values computed
Fcn(f) == f @@ <<>>

\* the fields of the struct P as variables of the name p, and back
Bind(p, P) == Fcn([k \in {<<p, f>> : f \in DOMAIN P} |-> P[k[2]]])
Unbind(p, regs, fields) == Fcn([f \in fields |-> regs[<<p, f>>]])

Put(regs, k, v) == IF k \in DOMAIN regs THEN [regs EXCEPT ![k] = v] ELSE (k :> v) @@ regs

\* felm_t operands: the variable and the index of <<..., i>>
KeyOf(o) == SubSeq(o, 1, Len(o) - 1)
GetF(regs, o) == regs[KeyOf(o)][o[Len(o)] + 1]
\* writing one half of a variable that has no value yet leaves the other half unset
PutF(regs, o, v) ==
    IF KeyOf(o) \in DOMAIN regs
    THEN [regs EXCEPT ![KeyOf(o)] = [@ EXCEPT ![o[Len(o)] + 1] = v]]
    ELSE (KeyOf(o) :> (IF o[Len(o)] = 0 THEN <<v, <<>>>> ELSE <<<<>>, v>>)) @@ regs

ExecStep(regs, s) ==
    CASE s[1] \in {"fp2mul1271", "fp2add1271", "fp2sub1271"} ->
            Put(regs, s[4], Call(s[1], <<regs[s[2]], regs[s[3]]>>))
      [] s[1] = "fp2sqr1271" -> Put(regs, s[3], Call(s[1], <<regs[s[2]]>>))
      [] s[1] = "fp2addsub1271" ->
            LET r == Put(regs, s[2], Call("fp2add1271", <<regs[s[2]], regs[s[2]]>>))
            IN Put(r, s[4], Call("fp2sub1271", <<r[s[2]], r[s[3]]>>))
      [] s[1] = "fp2neg1271" -> Put(regs, s[2], fp2neg1271(regs[s[2]]))
      [] s[1] = "copy32" -> Put(regs, s[2], regs[s[3]])
      [] s[1] = "= 1" -> Put(regs, s[2], <<<<ONE64, ZERO64>>, <<ZERO64, ZERO64>>>>)
      [] s[1] = "fp2div1271" -> Put(regs, s[2], fp2div1271(regs[s[2]]))
      [] s[1] = "fpsqr1271 x" -> PutF(regs, s[2], fpsqr1271_times(GetF(regs, s[2]), s[3]))
      [] s[1] \in {"fpmul1271", "fpadd1271", "fpsub1271"} ->
            PutF(regs, s[4], Call(s[1], <<GetF(regs, s[2]), GetF(regs, s[3])>>))
      [] s[1] \in {"fpsqr1271", "fpexp1251"} -> PutF(regs, s[3], Call(s[1], <<GetF(regs, s[2])>>))
      [] s[1] \in {"fpneg1271", "mod1271"} -> PutF(regs, s[2], Call(s[1], <<GetF(regs, s[2])>>))

\* statements lo..hi of code, in order
RECURSIVE ExecRange(_, _, _, _)
ExecRange(code, lo, hi, regs) ==
    IF lo > hi THEN regs
    ELSE IF lo = hi THEN Call("ExecStep", <<regs, code[lo]>>)
    ELSE LET mid == (lo + hi) \div 2
             r == ExecRange(code, lo, mid, regs)
         IN Then(r, ExecRange(code, mid + 1, hi, r))

Exec(code, regs) == ExecRange(code, 1, Len(code), regs)

----------------------------------------------------------------------------
(* Point functions *)

\* (felm_t*)&c for an array c of four words
AsF2elm(c) == <<<<c[1], c[2]>>, <<c[3], c[4]>>>>

\* the constants the point functions name
FieldConstants ==
    (<<"PARAMETER_d">> :> AsF2elm(PARAMETER_d)) @@ (<<"ONE">> :> AsF2elm(ONE))
    @@ (<<"ctau1">> :> AsF2elm(ctau1)) @@ (<<"ctaudual1">> :> AsF2elm(ctaudual1))
    @@ (<<"cphi0">> :> AsF2elm(cphi0)) @@ (<<"cphi1">> :> AsF2elm(cphi1))
    @@ (<<"cphi2">> :> AsF2elm(cphi2)) @@ (<<"cphi3">> :> AsF2elm(cphi3))
    @@ (<<"cphi4">> :> AsF2elm(cphi4)) @@ (<<"cphi5">> :> AsF2elm(cphi5))
    @@ (<<"cphi6">> :> AsF2elm(cphi6)) @@ (<<"cphi7">> :> AsF2elm(cphi7))
    @@ (<<"cphi8">> :> AsF2elm(cphi8)) @@ (<<"cphi9">> :> AsF2elm(cphi9))
    @@ (<<"cpsi1">> :> AsF2elm(cpsi1)) @@ (<<"cpsi2">> :> AsF2elm(cpsi2))
    @@ (<<"cpsi3">> :> AsF2elm(cpsi3)) @@ (<<"cpsi4">> :> AsF2elm(cpsi4))

\* the fields of point_t, point_extproj, point_extproj_precomp and point_precomp
point_affine == {"x", "y"}
point_extproj == {"x", "y", "z", "ta", "tb"}
point_extproj_precomp == {"xy", "yx", "z2", "t2"}
point_precomp == {"xy", "yx", "t2"}

fpexp1251(a) == Exec(fpexp1251_code, <<"a">> :> <<a, <<>>>>)[<<"af">>][1]

eccnorm(P) == Unbind("Q", Exec(eccnorm_code, Bind("P", P)), point_affine)

R1_to_R2(P) == Unbind("Q", Exec(R1_to_R2_code, Bind("P", P) @@ Call("FieldConstants", <<>>)), point_extproj_precomp)

R1_to_R3(P) == Unbind("Q", Exec(R1_to_R3_code, Bind("P", P)), point_extproj_precomp)

\* Q->ta and Q->tb are not written
R2_to_R4(P) == Unbind("Q", Exec(R2_to_R4_code, Bind("P", P)), {"x", "y", "z"})

eccdouble(P) == Unbind("P", Exec(eccdouble_code, Bind("P", P)), point_extproj)

eccadd_core(P, Q) == Unbind("R", Exec(eccadd_core_code, Bind("P", P) @@ Bind("Q", Q)), point_extproj)

\* eccadd(Q, P): the new P
eccadd(Q, P) == Call("eccadd_core", <<Q, Call("R1_to_R3", <<P>>)>>)

point_setup(P) == Unbind("Q", Exec(point_setup_code, Bind("P", P)), point_extproj)

ecc_point_validate(P) ==
    LET t1 == Exec(ecc_point_validate_code, Bind("P", P) @@ Call("FieldConstants", <<>>))[<<"t1">>]
        \* (!(a[0] | a[1]) || !((a[0] + 1) | (a[1] + 1)))
        ok(a) == (IsZero(a[1]) /\ IsZero(a[2])) \/ (a[1] = ALLONES /\ a[2] = ALLONES)
    IN ok(t1[1]) /\ ok(t1[2])

\* eccmadd(Q, P): the new P
eccmadd(Q, P) == Unbind("P", Exec(eccmadd_code, Bind("P", P) @@ Bind("Q", Q)), point_extproj)

ecc_tau(P) == Unbind("P", Exec(ecc_tau_code, Bind("P", P) @@ Call("FieldConstants", <<>>)), DOMAIN P)

\* writes P->ta and P->tb
ecc_tau_dual(P) == Unbind("P", Exec(ecc_tau_dual_code, Bind("P", P) @@ Call("FieldConstants", <<>>)), point_extproj)

ecc_delphidel(P) == Unbind("P", Exec(ecc_delphidel_code, Bind("P", P) @@ Call("FieldConstants", <<>>)), DOMAIN P)

ecc_delpsidel(P) == Unbind("P", Exec(ecc_delpsidel_code, Bind("P", P) @@ Call("FieldConstants", <<>>)), DOMAIN P)

ecc_psi(P) == Call("ecc_tau_dual", <<Call("ecc_delpsidel", <<Call("ecc_tau", <<P>>)>>)>>)

ecc_phi(P) == Call("ecc_tau_dual", <<Call("ecc_delphidel", <<Call("ecc_tau", <<P>>)>>)>>)

eccneg_extproj_precomp(P) ==
    Unbind("Q", Exec(eccneg_extproj_precomp_code, Bind("P", P)), point_extproj_precomp)

eccneg_precomp(P) == Unbind("Q", Exec(eccneg_precomp_code, Bind("P", P)), point_precomp)

----------------------------------------------------------------------------
(* Arithmetic on scalars.  The body of a function that is a sequence of    *)
(* assignments to words is an operator f_stmt(i, e): the effect of its     *)
(* i-th statement on the variables e of the function.  C evaluates the     *)
(* operands of + from left to right in this build, so that in               *)
(* u = Call("_addcarry_u64", <<0, Call("_umul128", <<.., &uv>>), ...>>) + uv the word added is the  *)
(* one the call has just stored.                                           *)

\* a variable that has not been assigned yet
Unset == <<>>

\* the carry (unsigned char) an intrinsic returns, as an unsigned long long
CW(c) == <<c, 0, 0, 0, 0, 0, 0, 0>>

\* statements lo..hi of the function f, in order
RECURSIVE Run(_, _, _, _)
Run(f, lo, hi, e) ==
    IF lo > hi THEN e
    ELSE IF lo = hi THEN Call(f, <<lo, e>>)
    ELSE LET mid == (lo + hi) \div 2
             r == Run(f, lo, mid, e)
         IN Then(r, Run(f, mid + 1, hi, r))

\* multiply, lines 1289-1307; rows a[1], a[2], a[3] are statements 5-8, 9-12, 13-16
multiply_stmt(i, e) ==
    LET a == e.a
        b == e.b
        c == e.c
        j == (i - 1) \div 4
        k == (i - 1) % 4
    IN CASE i = 1 ->
              LET m == Call("_umul128", <<a[1], b[1]>>)
              IN [e EXCEPT !.c = [c EXCEPT ![1] = m.lo], !.u = m.hi]
         [] i \in 2..3 ->
              LET m == Call("_umul128", <<a[1], b[i]>>)
                  r == Call("_addcarry_u64", <<0, m.lo, e.u>>)
              IN [e EXCEPT !.uv = m.hi, !.c = [c EXCEPT ![i] = r.v], !.u = Add64(CW(r.c), m.hi)]
         [] i = 4 ->
              LET m == Call("_umul128", <<a[1], b[4]>>)
                  r == Call("_addcarry_u64", <<0, m.lo, e.u>>)
              IN [e EXCEPT !.uv = m.hi, !.c = [c EXCEPT ![4] = r.v, ![5] = Add64(CW(r.c), m.hi)]]
         [] i > 4 /\ k = 0 ->
              LET m == Call("_umul128", <<a[j + 1], b[1]>>)
                  r == Call("_addcarry_u64", <<0, c[j + 1], m.lo>>)
              IN [e EXCEPT !.uv = m.hi, !.c = [c EXCEPT ![j + 1] = r.v], !.u = Add64(CW(r.c), m.hi)]
         [] i > 4 /\ k = 1 ->
              LET m == Call("_umul128", <<a[j + 1], b[2]>>)
                  r == Call("_addcarry_u64", <<0, m.lo, e.u>>)
              IN [e EXCEPT !.uv = m.hi, !.v = r.v, !.u = Add64(CW(r.c), m.hi)]
         [] i > 4 /\ k = 2 ->
              LET n == Call("_addcarry_u64", <<0, c[j + 2], e.v>>)
                  m == Call("_umul128", <<a[j + 1], b[3]>>)
                  r == Call("_addcarry_u64", <<n.c, m.lo, e.u>>)
              IN [e EXCEPT !.c = [c EXCEPT ![j + 2] = n.v], !.uv = m.hi, !.v = r.v,
                           !.u = Add64(CW(r.c), m.hi)]
         [] i > 4 /\ k = 3 ->
              LET n == Call("_addcarry_u64", <<0, c[j + 3], e.v>>)
                  m == Call("_umul128", <<a[j + 1], b[4]>>)
                  r == Call("_addcarry_u64", <<n.c, m.lo, e.u>>)
                  t == Call("_addcarry_u64", <<0, c[j + 4], r.v>>)
              IN [e EXCEPT !.uv = m.hi, !.v = r.v,
                           !.c = [c EXCEPT ![j + 3] = n.v, ![j + 4] = t.v,
                                           ![j + 5] = Add64(Add64(CW(r.c), m.hi), CW(t.c))]]

multiply(a, b) ==
    Run("multiply_stmt", 1, 16,
        [a |-> a, b |-> b, c |-> <<Unset, Unset, Unset, Unset, Unset, Unset, Unset, Unset>>,
         u |-> Unset, v |-> Unset, uv |-> Unset]).c

\* a + b and a - b on arrays of n words, as a chain of n intrinsics from word 0 up:
\* [v |-> the words written, c |-> the carry or borrow the last one returns]
RECURSIVE AddChain(_, _, _, _, _)
AddChain(a, b, c, i, out) ==
    IF i > Len(a) THEN [v |-> out, c |-> c]
    ELSE LET s == Call("_addcarry_u64", <<c, a[i], b[i]>>) IN AddChain(a, b, s.c, i + 1, Append(out, s.v))
RECURSIVE SubChain(_, _, _, _, _)
SubChain(a, b, c, i, out) ==
    IF i > Len(a) THEN [v |-> out, c |-> c]
    ELSE LET s == Call("_subborrow_u64", <<c, a[i], b[i]>>) IN SubChain(a, b, s.c, i + 1, Append(out, s.v))

\* Montgomery_multiply_mod_order, the computation of Q, lines 1329-1340
Montgomery_Q_stmt(i, e) ==
    LET P == e.P
        Q == e.Q
    IN CASE i = 1 ->
              LET m == Call("_umul128", <<P[1], MONTGOMERY_SMALL_R_PRIME_0>>)
              IN [e EXCEPT !.Q = [Q EXCEPT ![1] = m.lo], !.u = m.hi]
         [] i = 2 ->
              LET m == Call("_umul128", <<P[1], MONTGOMERY_SMALL_R_PRIME_1>>)
                  r == Call("_addcarry_u64", <<0, m.lo, e.u>>)
              IN [e EXCEPT !.uv = m.hi, !.Q = [Q EXCEPT ![2] = r.v], !.u = Add64(CW(r.c), m.hi)]
         [] i = 3 ->
              LET m == Call("_umul128", <<P[1], MONTGOMERY_SMALL_R_PRIME_2>>)
                  r == Call("_addcarry_u64", <<0, m.lo, e.u>>)
              IN [e EXCEPT !.uv = m.hi, !.Q = [Q EXCEPT ![3] = r.v], !.u = Add64(CW(r.c), m.hi)]
         [] i = 4 ->
              [e EXCEPT !.Q = [Q EXCEPT ![4] = Call("_addcarry_u64", <<0, Mul64(P[1], MONTGOMERY_SMALL_R_PRIME_3), e.u>>).v]]
         [] i = 5 ->
              LET m == Call("_umul128", <<P[2], MONTGOMERY_SMALL_R_PRIME_0>>)
                  r == Call("_addcarry_u64", <<0, Q[2], m.lo>>)
              IN [e EXCEPT !.uv = m.hi, !.Q = [Q EXCEPT ![2] = r.v], !.u = Add64(CW(r.c), m.hi)]
         [] i = 6 ->
              LET m == Call("_umul128", <<P[2], MONTGOMERY_SMALL_R_PRIME_1>>)
                  r == Call("_addcarry_u64", <<0, m.lo, e.u>>)
              IN [e EXCEPT !.uv = m.hi, !.v = r.v, !.u = Add64(CW(r.c), m.hi)]
         [] i = 7 ->
              LET n == Call("_addcarry_u64", <<0, Q[3], e.v>>)
                  r == Call("_addcarry_u64", <<n.c, Mul64(P[2], MONTGOMERY_SMALL_R_PRIME_2), e.u>>)
              IN [e EXCEPT !.Q = [Q EXCEPT ![3] = n.v], !.v = r.v]
         [] i = 8 -> [e EXCEPT !.Q = [Q EXCEPT ![4] = Call("_addcarry_u64", <<0, Q[4], e.v>>).v]]
         [] i = 9 ->
              LET m == Call("_umul128", <<P[3], MONTGOMERY_SMALL_R_PRIME_0>>)
                  r == Call("_addcarry_u64", <<0, Q[3], m.lo>>)
              IN [e EXCEPT !.uv = m.hi, !.Q = [Q EXCEPT ![3] = r.v], !.u = Add64(CW(r.c), m.hi)]
         [] i = 10 -> [e EXCEPT !.v = Call("_addcarry_u64", <<0, Mul64(P[3], MONTGOMERY_SMALL_R_PRIME_1), e.u>>).v]
         [] i = 11 -> [e EXCEPT !.Q = [Q EXCEPT ![4] = Call("_addcarry_u64", <<0, Q[4], e.v>>).v]]
         [] i = 12 ->
              [e EXCEPT !.Q = [Q EXCEPT ![4] = Call("_addcarry_u64", <<0, Q[4], Mul64(P[4], MONTGOMERY_SMALL_R_PRIME_0)>>).v]]

\* the test of line 1318: mb is the array {1, 0, 0, 0}
IsOne(mb) == mb[1] = ONE64 /\ IsZero(mb[2]) /\ IsZero(mb[3]) /\ IsZero(mb[4])

\* Montgomery_multiply_mod_order with the subtraction of the order of lines 1345-1348
\* as Reduce(t, carry): t is temp[4..7] after the addition, carry what the addition returns
Montgomery_Reduce(t, carry) ==
    LET d == SubChain(t, curve_order, 0, 1, <<>>)
    IN IF carry - d.c # 0 THEN AddChain(d.v, curve_order, 0, 1, <<>>).v ELSE d.v

Montgomery_multiply_mod_order(ma, mb) ==
    LET P == IF IsOne(mb) THEN ma \o <<ZERO64, ZERO64, ZERO64, ZERO64>> ELSE Call("multiply", <<ma, mb>>)
        Q == Run("Montgomery_Q_stmt", 1, 12,
                 [P |-> P, Q |-> <<Unset, Unset, Unset, Unset>>, u |-> Unset, v |-> Unset, uv |-> Unset]).Q
        s == AddChain(P, Call("multiply", <<Q, curve_order>>), 0, 1, <<>>)
    IN Call("Montgomery_Reduce", <<SubSeq(s.v, 5, 8), s.c>>)

\* mul_truncate, lines 1821-1839; e holds s, C and the locals
mul_truncate_stmt(i, e) ==
    LET s == e.s
        C == e.C
    IN CASE i = 1 -> [e EXCEPT !.high00 = Call("_umul128", <<s[1], C[1]>>).hi]
         [] i = 2 -> LET m == Call("_umul128", <<s[2], C[1]>>) IN [e EXCEPT !.low10 = m.lo, !.high10 = m.hi]
         [] i = 3 ->
              LET n == Call("_addcarry_u64", <<0, e.high00, e.low10>>)
              IN [e EXCEPT !.t0 = n.v, !.t1 = Call("_addcarry_u64", <<n.c, e.high10, ZERO64>>).v]
         [] i = 4 -> LET m == Call("_umul128", <<s[1], C[2]>>) IN [e EXCEPT !.low01 = m.lo, !.high01 = m.hi]
         [] i = 5 ->
              LET n == Call("_addcarry_u64", <<0, e.t0, e.low01>>)
                  r == Call("_addcarry_u64", <<n.c, e.t1, e.high01>>)
              IN [e EXCEPT !.t0 = n.v, !.t3 = r.v, !.t2 = CW(r.c)]
         [] i = 6 -> LET m == Call("_umul128", <<s[3], C[1]>>) IN [e EXCEPT !.low20 = m.lo, !.high20 = m.hi]
         [] i = 7 ->
              LET n == Call("_addcarry_u64", <<0, e.t3, e.low20>>)
              IN [e EXCEPT !.t4 = n.v, !.t5 = Call("_addcarry_u64", <<n.c, e.t2, e.high20>>).v]
         [] i = 8 -> LET m == Call("_umul128", <<s[1], C[3]>>) IN [e EXCEPT !.low02 = m.lo, !.high02 = m.hi]
         [] i = 9 ->
              LET n == Call("_addcarry_u64", <<0, e.t4, e.low02>>)
                  r == Call("_addcarry_u64", <<n.c, e.t5, e.high02>>)
              IN [e EXCEPT !.t7 = n.v, !.t8 = r.v, !.t6 = CW(r.c)]
         [] i = 10 -> LET m == Call("_umul128", <<s[2], C[2]>>) IN [e EXCEPT !.low11 = m.lo, !.high11 = m.hi]
         [] i = 11 ->
              LET n == Call("_addcarry_u64", <<0, e.t7, e.low11>>)
                  r == Call("_addcarry_u64", <<n.c, e.t8, e.high11>>)
              IN [e EXCEPT !.t0 = n.v, !.t10 = r.v, !.t9 = CW(r.c)]
         [] i = 12 -> LET m == Call("_umul128", <<s[1], C[4]>>) IN [e EXCEPT !.low03 = m.lo, !.high03 = m.hi]
         [] i = 13 ->
              LET n == Call("_addcarry_u64", <<0, e.t10, e.low03>>)
              IN [e EXCEPT !.t11 = n.v, !.t12 = Call("_addcarry_u64", <<n.c, Add64(e.t6, e.t9), e.high03>>).v]
         [] i = 14 -> LET m == Call("_umul128", <<s[4], C[1]>>) IN [e EXCEPT !.low30 = m.lo, !.high30 = m.hi]
         [] i = 15 ->
              LET n == Call("_addcarry_u64", <<0, e.t11, e.low30>>)
              IN [e EXCEPT !.t13 = n.v, !.t14 = Call("_addcarry_u64", <<n.c, e.t12, e.high30>>).v]
         [] i = 16 -> LET m == Call("_umul128", <<s[2], C[3]>>) IN [e EXCEPT !.low12 = m.lo, !.high12 = m.hi]
         [] i = 17 ->
              LET n == Call("_addcarry_u64", <<0, e.t13, e.low12>>)
              IN [e EXCEPT !.t15 = n.v, !.t16 = Call("_addcarry_u64", <<n.c, e.t14, e.high12>>).v]
         [] i = 18 ->
              LET m == Call("_umul128", <<s[3], C[2]>>)
                  n == Call("_addcarry_u64", <<0, e.t15, m.lo>>)
              IN [e EXCEPT !.t0 = n.v, !.high21 = m.hi,
                           !.return = Add64(Add64(Add64(Add64(Add64(CW(n.c), e.t16), m.hi),
                                                        Mul64(s[2], C[4])), Mul64(s[3], C[3])),
                                            Mul64(s[4], C[2]))]

mul_truncate(s, C) ==
    Run("mul_truncate_stmt", 1, 18,
        [s |-> s, C |-> C, t0 |-> Unset, t1 |-> Unset, t2 |-> Unset, t3 |-> Unset, t4 |-> Unset,
         t5 |-> Unset, t6 |-> Unset, t7 |-> Unset, t8 |-> Unset, t9 |-> Unset, t10 |-> Unset,
         t11 |-> Unset, t12 |-> Unset, t13 |-> Unset, t14 |-> Unset, t15 |-> Unset, t16 |-> Unset,
         high00 |-> Unset, low10 |-> Unset, high10 |-> Unset, low01 |-> Unset, high01 |-> Unset,
         low20 |-> Unset, high20 |-> Unset, low02 |-> Unset, high02 |-> Unset, low11 |-> Unset,
         high11 |-> Unset, low03 |-> Unset, high03 |-> Unset, low30 |-> Unset, high30 |-> Unset,
         low12 |-> Unset, high12 |-> Unset, high21 |-> Unset, return |-> Unset]).return

\* a1 * b1 + a2 * b2 + a3 * b3 + a4 * b4 + c on unsigned long long
Dot4(a1, b1, a2, b2, a3, b3, a4, b4, c) ==
    Add64(Add64(Add64(Add64(Mul64(a1, b1), Mul64(a2, b2)), Mul64(a3, b3)), Mul64(a4, b4)), c)

\* decompose, the scalars before the parity correction
decompose_scalars(k) ==
    LET a1 == Call("mul_truncate", <<k, ell1>>)
        a2 == Call("mul_truncate", <<k, ell2>>)
        a3 == Call("mul_truncate", <<k, ell3>>)
        a4 == Call("mul_truncate", <<k, ell4>>)
    IN <<Add64(Call("Dot4", <<a1, B11, a2, B21, a3, B31, a4, B41, C1>>), k[1]),
         Call("Dot4", <<a1, B12, a2, B22, a3, B32, a4, B42, C2>>),
         Call("Dot4", <<a1, B13, a2, B23, a3, B33, a4, B43, C3>>),
         Call("Dot4", <<a1, B14, a2, B24, a3, B34, a4, B44, C4>>)>>

\* decompose without the correction of an even scalars[0]
decompose_Uncorrected(k) == Call("decompose_scalars", <<k>>)

decompose(k) ==
    LET scalars == Call("decompose_scalars", <<k>>)
    IN IF scalars[1][1] % 2 = 0
       THEN <<Sub64(scalars[1], B41), Sub64(scalars[2], B42), Sub64(scalars[3], B43), Sub64(scalars[4], B44)>>
       ELSE scalars

----------------------------------------------------------------------------
(* Fixed-base scalar multiplication *)

\* an array of unsigned long long as bytes in memory (little endian), and back
RECURSIVE BytesOf(_)
BytesOf(words) == IF words = <<>> THEN <<>> ELSE words[1] \o BytesOf(Tail(words))
WordsOf(bytes) == Tup([i \in 1..(Len(bytes) \div 8) |-> SubSeq(bytes, 8 * i - 7, 8 * i)], Len(bytes) \div 8)

\* the word table[j] of a table that is written with three numbers for each word
TableWord(table, j) ==
    LET a == table[3 * j + 1]
        b == table[3 * j + 2]
        c == table[3 * j + 3]
    IN <<a % 256, (a \div 256) % 256, a \div 65536, b % 256, (b \div 256) % 256, b \div 65536,
         c % 256, c \div 256>>

\* the entry ((point_precomp_t*)table)[digit] of such a table
PrecompAt(table, digit) ==
    LET W == Tup([j \in 1..12 |-> TableWord(table, 12 * digit + j - 1)], 12)
    IN [xy |-> AsF2elm(SubSeq(W, 1, 4)), yx |-> AsF2elm(SubSeq(W, 5, 8)), t2 |-> AsF2elm(SubSeq(W, 9, 12))]

\* unsigned int values are sequences of 4 bytes
U32(n) == <<n, 0, 0, 0>>
U32Zero == <<0, 0, 0, 0>>
U32Max == <<255, 255, 255, 255>>
\* the value of an unsigned int below 2^24
U32Small(d) == d[1] + 256 * d[2] + 65536 * d[3]

\* table_lookup_fixed_base(P, digit, sign): the point written to P
table_lookup_fixed_base(digit, sign) ==
    LET E == Call("FIXED_BASE_TABLE", <<digit>>)
    IN IF sign # U32Zero
       THEN [xy |-> E.yx, yx |-> E.xy,
             t2 |-> <<<<NotBytes(E.t2[1][1]), Sub64(MASK63, E.t2[1][2])>>,
                      <<NotBytes(E.t2[2][1]), Sub64(MASK63, E.t2[2][2])>>>>]
       ELSE [xy |-> E.xy, yx |-> E.yx, t2 |-> E.t2]

\* the four statements that shift scalar[0..3] right by 1
ShiftScalar(scalar) ==
    <<__shiftright128(scalar[1], scalar[2], 1), __shiftright128(scalar[2], scalar[3], 1),
      __shiftright128(scalar[3], scalar[4], 1), Shr1(scalar[4])>>

\* ecc_mul_fixed, lines 1494-1508: the scalar reduced modulo the order, made odd and halved.
\* [scalar |-> the words, odd |-> whether the branch of line 1500 was skipped]
ecc_mul_fixed_scalar(k) ==
    LET s == Call("Montgomery_multiply_mod_order",
                  <<Call("Montgomery_multiply_mod_order", <<k, Montgomery_Rprime>>), ONE>>)
        odd == s[1][1] % 2 = 1
        t == IF odd THEN s ELSE AddChain(s, curve_order, 0, 1, <<>>).v
    IN [scalar |-> Call("ShiftScalar", <<t>>), odd |-> odd]

\* lines 1538-1543: w += c; carry = w ? 0 : (c & 1)
ecc_mul_fixed_add(w, c) ==
    LET s == Add64(w, c)
    IN [v |-> s, c |-> IF IsZero(s) THEN c[1] % 2 ELSE 0]

\* one iteration of the loops of lines 1514-1548 (i = 49 is the assignment of line 1524):
\* e is [scalar, digits], digits[i + 1] being digits[i]
ecc_mul_fixed_digit(i, e) ==
    LET scalar == e.scalar
        bit == scalar[1][1] % 2
    IN IF i < 49
       THEN [scalar |-> Call("ShiftScalar", <<scalar>>),
             digits |-> Append(e.digits, IF bit = 1 THEN U32Zero ELSE U32Max)]
       ELSE IF i = 49 THEN [e EXCEPT !.digits = Append(@, U32Zero)]
       ELSE LET sh == Call("ShiftScalar", <<scalar>>)
                \* temp = (0 - digits[i - (i / 50) * 50]) & digits[i]
                neg == SubBytes(U32Zero, e.digits[(i - (i \div 50) * 50) + 1], 0, 1, <<>>).v
                temp == AndBytes(neg, U32(bit)) \o <<0, 0, 0, 0>>
                a0 == Call("ecc_mul_fixed_add", <<sh[1], temp>>)
                a1 == Call("ecc_mul_fixed_add", <<sh[2], CW(a0.c)>>)
                a2 == Call("ecc_mul_fixed_add", <<sh[3], CW(a1.c)>>)
                a3 == Call("ecc_mul_fixed_add", <<sh[4], CW(a2.c)>>)
            IN [scalar |-> <<a0.v, a1.v, a2.v, a3.v>>, digits |-> Append(e.digits, U32(bit))]

\* one statement of ecc_mul_fixed from line 1549 on: e is [regs, digits, trace].  The trace
\* records, in order, the branch each table lookup takes at "if (sign)" and the index of
\* the entry of FIXED_BASE_TABLE it reads.
ecc_mul_fixed_do(s, e) ==
    LET d(n) == U32Small(e.digits[n + 1])
    IN CASE s[1] = "table_lookup_fixed_base" ->
              LET digit == s[2] + (((((d(s[3]) * 2) + d(s[4])) * 2) + d(s[5])) * 2) + d(s[6])
                  sign == IF s[7] = -1 THEN U32Zero ELSE e.digits[s[7] + 1]
              IN [e EXCEPT !.regs = Bind("S", Call("table_lookup_fixed_base", <<digit, sign>>)) @@ @,
                           !.trace = @ \o <<<<"if (sign)", sign # U32Zero>>, <<"FIXED_BASE_TABLE", digit>>>>]
         [] s[1] = "eccmadd" ->
              [e EXCEPT !.regs = Bind("R", Call("eccmadd", <<Unbind("S", e.regs, point_precomp),
                                                            Unbind("R", e.regs, point_extproj)>>)) @@ @]
         [] s[1] = "eccdouble" ->
              [e EXCEPT !.regs = Bind("R", Call("eccdouble", <<Unbind("R", e.regs, point_extproj)>>)) @@ @]
         [] s[1] = "eccnorm" ->
              [e EXCEPT !.regs = Bind("Q", Call("eccnorm", <<Unbind("R", e.regs, point_extproj)>>)) @@ @]
         [] OTHER -> [e EXCEPT !.regs = Call("ExecStep", <<@, s>>)]

ecc_mul_fixed_stmt(i, e) == ecc_mul_fixed_do(ecc_mul_fixed_code[i], e)

\* ecc_mul_fixed(k, Q): [Q |-> the point written, trace |-> the branches and table reads]
ecc_mul_fixed(k) ==
    LET p == Call("ecc_mul_fixed_scalar", <<k>>)
        g == Run("ecc_mul_fixed_digit", 0, 249, [scalar |-> p.scalar, digits |-> <<>>])
        r == Run("ecc_mul_fixed_stmt", 1, Len(ecc_mul_fixed_code),
                 [regs |-> <<>>, digits |-> g.digits, trace |-> <<<<"if (!(scalar[0] & 1))", ~p.odd>>>>])
    IN [Q |-> Unbind("Q", r.regs, point_affine), trace |-> r.trace]

----------------------------------------------------------------------------
(* Double scalar multiplication *)

\* the iteration of wNAF_recode that leaves the scalar as shifted after a negative digit
wNAF_recode_step_NoIncrement(i, e) ==
    LET scalar == e.scalar
        w == e.w
    IN IF IsZero(scalar) THEN e
       ELSE IF scalar[1] % 2 = 0
       THEN [e EXCEPT !.scalar = Shr1(scalar), !.digits = Append(@, 0)]
       ELSE LET val1 == 2 ^ (w - 1) - 1
                val2 == 2 ^ w
                d0 == scalar[1] % val2
                sh == ShrBytes(scalar, w)
                digit == IF d0 > val1 THEN d0 - val2 ELSE d0
            IN [e EXCEPT !.scalar = sh,
                         !.digits = Append(@, digit) \o (IF IsZero(sh) THEN <<>> ELSE Zeros(w - 1))]

\* one iteration of the while loop of wNAF_recode, if the loop has not ended:
\* e is [scalar, digits], digits[index + 1] being digits[index] and Len(digits) the index
wNAF_recode_step(i, e) ==
    LET scalar == e.scalar
        w == e.w
    IN IF IsZero(scalar) THEN e
       ELSE IF scalar[1] % 2 = 0
       THEN [e EXCEPT !.scalar = Shr1(scalar), !.digits = Append(@, 0)]
       ELSE LET val1 == 2 ^ (w - 1) - 1
                val2 == 2 ^ w
                d0 == scalar[1] % val2
                sh == ShrBytes(scalar, w)
                digit == IF d0 > val1 THEN d0 - val2 ELSE d0
                sc == IF digit < 0 THEN Add64(sh, ONE64) ELSE sh
            IN [e EXCEPT !.scalar = sc,
                         !.digits = Append(@, digit) \o (IF IsZero(sc) THEN <<>> ELSE Zeros(w - 1))]

\* wNAF_recode(scalar, w, digits): [digits |-> the 65 digits, overrun |-> whether the function
\* wrote beyond digits[64]]
wNAF_recode(scalar, w) ==
    LET r == Run("wNAF_recode_step", 1, 65, [scalar |-> scalar, w |-> w, digits |-> <<>>])
        n == Len(r.digits)
    IN [digits |-> IF n >= 65 THEN SubSeq(r.digits, 1, 65) ELSE r.digits \o Zeros(65 - n),
        overrun |-> n > 65 \/ ~IsZero(r.scalar)]

\* ecc_precomp_double(P, Table): the four entries of Table
ecc_precomp_double(P) ==
    LET T0 == Call("R1_to_R2", <<P>>)
        PP == Call("R1_to_R3", <<Call("eccdouble", <<P>>)>>)
        T1 == Call("R1_to_R2", <<Call("eccadd_core", <<T0, PP>>)>>)
        T2 == Call("R1_to_R2", <<Call("eccadd_core", <<T1, PP>>)>>)
        T3 == Call("R1_to_R2", <<Call("eccadd_core", <<T2, PP>>)>>)
    IN <<T0, T1, T2, T3>>

\* lines 1986-1994: the addition of an entry of a table of Q for the digit d
ecc_mul_double_addQ(T, table, d) ==
    IF d < 0 THEN Call("eccadd", <<Call("eccneg_extproj_precomp", <<table[((-d) \div 2) + 1]>>), T>>)
    ELSE IF d > 0 THEN Call("eccadd", <<table[(d \div 2) + 1], T>>)
    ELSE T

\* lines 2026-2034: the addition of an entry of DOUBLE_SCALAR_TABLE, from index base on
ecc_mul_double_addG(T, base, d) ==
    IF d < 0
    THEN Call("eccmadd", <<Call("eccneg_precomp", <<Call("DOUBLE_SCALAR_TABLE", <<base + ((-d) \div 2)>>)>>), T>>)
    ELSE IF d > 0 THEN Call("eccmadd", <<Call("DOUBLE_SCALAR_TABLE", <<base + (d \div 2)>>), T>>)
    ELSE T

\* ecc_mul_double up to the loop, lines 1936-1980, for a point that passed validation:
\* the tables, the digits and T
ecc_mul_double_setup(k, l, Q1) ==
    LET Q2 == Call("ecc_phi", <<Q1>>)
        Q3 == Call("ecc_psi", <<Q1>>)
        Q4 == Call("ecc_psi", <<Q2>>)
        k_scalars == Call("decompose", <<k>>)
        l_scalars == Call("decompose", <<l>>)
        dk == Tup([j \in 1..4 |-> Call("wNAF_recode", <<k_scalars[j], 8>>)], 4)
        dl == Tup([j \in 1..4 |-> Call("wNAF_recode", <<l_scalars[j], 4>>)], 4)
    IN [Q_table |-> <<Call("ecc_precomp_double", <<Q1>>), Call("ecc_precomp_double", <<Q2>>),
                      Call("ecc_precomp_double", <<Q3>>), Call("ecc_precomp_double", <<Q4>>)>>,
        digits_k |-> Tup([j \in 1..4 |-> dk[j].digits], 4),
        digits_l |-> Tup([j \in 1..4 |-> dl[j].digits], 4),
        overrun |-> \E j \in 1..4 : dk[j].overrun \/ dl[j].overrun,
        T |-> [x |-> <<<<ZERO64, ZERO64>>, <<ZERO64, ZERO64>>>>,
               y |-> <<<<ONE64, ZERO64>>, <<ZERO64, ZERO64>>>>,
               z |-> <<<<ONE64, ZERO64>>, <<ZERO64, ZERO64>>>>]]

\* the body of the loop of line 1982 for the index i (64 down to 0)
ecc_mul_double_step(i, e) ==
    LET T0 == Call("eccdouble", <<e.T>>)
        T1 == Call("ecc_mul_double_addQ", <<T0, e.Q_table[1], e.digits_l[1][i + 1]>>)
        T2 == Call("ecc_mul_double_addQ", <<T1, e.Q_table[2], e.digits_l[2][i + 1]>>)
        T3 == Call("ecc_mul_double_addQ", <<T2, e.Q_table[3], e.digits_l[3][i + 1]>>)
        T4 == Call("ecc_mul_double_addQ", <<T3, e.Q_table[4], e.digits_l[4][i + 1]>>)
        T5 == Call("ecc_mul_double_addG", <<T4, 0, e.digits_k[1][i + 1]>>)
        T6 == Call("ecc_mul_double_addG", <<T5, 64, e.digits_k[2][i + 1]>>)
        T7 == Call("ecc_mul_double_addG", <<T6, 2 * 64, e.digits_k[3][i + 1]>>)
    IN [e EXCEPT !.T = Call("ecc_mul_double_addG", <<T7, 3 * 64, e.digits_k[4][i + 1]>>)]

----------------------------------------------------------------------------
(* Point encoding *)

\* encode with the sign bits read from P->x after Pencoded has been written
encode_SignAfterCopy(P, alias) ==
    LET x == IF alias THEN P.y ELSE P.x
        Pencoded == BytesOf(P.y[1]) \o BytesOf(P.y[2])
        temp == IF IsZero(x[1][1]) /\ IsZero(x[1][2]) THEN x[2][2][8] \div 64 % 2 ELSE x[1][2][8] \div 64 % 2
    IN [Pencoded EXCEPT ![32] = (@ % 128) + 128 * (IF @ >= 128 THEN 1 ELSE temp)]

\* encode(P, Pencoded).  alias says that Pencoded is the memory of P itself, as in verify:
\* copy32 then overwrites P->x with P->y before line 2195 reads P->x[0].
encode(P, alias) ==
    LET temp1 == P.x[2][2][8] \div 64 % 2
        temp2 == P.x[1][2][8] \div 64 % 2
        Pencoded == BytesOf(P.y[1]) \o BytesOf(P.y[2])
        x0 == IF alias THEN P.y[1] ELSE P.x[1]
        temp == IF IsZero(x0[1]) /\ IsZero(x0[2]) THEN temp1 ELSE temp2
    IN [Pencoded EXCEPT ![32] = (@ % 128) + 128 * (IF @ >= 128 THEN 1 ELSE temp)]

\* w >> 62 on a word
Shr62(w) == w[8] \div 64

\* decode: the statements between the straight-line parts, on the store of its variables
\* lines 2211-2212
decode_load(Pencoded) ==
    LET y == WordsOf(Pencoded)
    IN (<<"P", "y">> :> <<<<y[1], y[2]>>, <<y[3], And63(y[4])>>>>) @@ Call("FieldConstants", <<>>)

\* lines 2234-2238
decode_root(regs) ==
    LET t == Call("mod1271", <<GetF(regs, <<"t", 0>>)>>)
    IN IF IsZero(t[1]) /\ IsZero(t[2])
       THEN PutF(regs, <<"t", 0>>, Call("fpsub1271", <<GetF(regs, <<"t1", 0>>), GetF(regs, <<"t3", 0>>)>>))
       ELSE PutF(regs, <<"t", 0>>, t)

\* lines 2250-2268
decode_halve(regs) ==
    LET x0 == Call("fpdiv1271", <<GetF(regs, <<"P", "x", 0>>)>>)
        x1 == Call("fpmul1271", <<GetF(regs, <<"t2", 0>>), GetF(regs, <<"t3", 0>>)>>)
        t == Call("mod1271", <<Call("fpsub1271", <<GetF(regs, <<"t", 0>>), GetF(regs, <<"t1", 0>>)>>)>>)
        swap == ~(IsZero(t[1]) /\ IsZero(t[2]))
    IN Put(PutF(regs, <<"t", 0>>, t), <<"P", "x">>, IF swap THEN <<x1, x0>> ELSE <<x0, x1>>)

\* lines 2270-2275
decode_sign(regs, Pencoded) ==
    LET x0 == Call("mod1271", <<GetF(regs, <<"P", "x", 0>>)>>)
        x == <<x0, GetF(regs, <<"P", "x", 1>>)>>
        s == Shr62(x[IF IsZero(x0[1]) /\ IsZero(x0[2]) THEN 2 ELSE 1][2])
    IN Put(regs, <<"P", "x">>, IF Pencoded[32] \div 128 # s THEN Call("fp2neg1271", <<x>>) ELSE x)

\* lines 2277-2278: the candidate P, the R that point_setup makes of it, and whether it validates
decode_setup(P) ==
    LET R == Call("point_setup", <<P>>)
    IN [P |-> P, R |-> R, valid |-> Call("ecc_point_validate", <<R>>)]

\* the second candidate without lines 2281-2282, which write it to P
decode_retry_NoWriteBack(c) ==
    LET x1 == Call("fpneg1271", <<c.R.x[2]>>)
        R == [c.R EXCEPT !.x = <<c.R.x[1], x1>>]
    IN [P |-> c.P, R |-> R, valid |-> Call("ecc_point_validate", <<R>>)]

\* lines 2280-2283: the candidate with R->x[1] negated, written to P, and whether it validates
decode_retry(c) ==
    LET x1 == Call("fpneg1271", <<c.R.x[2]>>)
        R == [c.R EXCEPT !.x = <<c.R.x[1], x1>>]
    IN [P |-> [c.P EXCEPT !.x = <<c.P.x[1], x1>>], R |-> R, valid |-> Call("ecc_point_validate", <<R>>)]

\* lines 2277-2289: [return, P]
decode_validate(P) ==
    LET c == Call("decode_setup", <<P>>)
    IN IF c.valid THEN [return |-> TRUE, P |-> c.P]
       ELSE LET d == Call("decode_retry", <<c>>)
            IN [return |-> d.valid, P |-> d.P]

\* decode(Pencoded, P): [return |-> the value returned, P |-> the point written]
decode(Pencoded) ==
    LET r1 == Call("Exec", <<decode_code1, decode_load(Pencoded)>>)
        r2 == Call("Exec", <<decode_code2, Call("decode_root", <<r1>>)>>)
        r3 == Call("decode_sign", <<Call("decode_halve", <<r2>>), Pencoded>>)
    IN Call("decode_validate", <<Unbind("P", r3, point_affine)>>)

----------------------------------------------------------------------------
(* SchnorrQ *)

\* signWithNonceK, lines 2301-2302: temp after the two copy32
sign_temp(temp, k, messageDigest) == SubSeq(temp, 1, 32) \o SubSeq(k, 33, 64) \o messageDigest

\* the nonce hashed from temp instead of temp + 32
sign_nonce_FromTemp(temp) == WordsOf(Call("KangarooTwelve", <<SubSeq(temp, 1, 32 + 32), 32 + 32, 64>>))

\* line 2304: the nonce r (8 words)
sign_nonce(temp) == WordsOf(Call("KangarooTwelve", <<SubSeq(temp, 33, 96), 32 + 32, 64>>))

\* lines 2306-2307: the encoded commitment, signature[0..31]
sign_commit(r) == encode(Call("ecc_mul_fixed", <<SubSeq(r, 1, 4)>>).Q, FALSE)

\* lines 2308-2311: h (8 words)
sign_challenge(commitment, publicKey, messageDigest) ==
    WordsOf(Call("KangarooTwelve", <<commitment \o publicKey \o messageDigest, 32 + 64, 64>>))

\* r - s without the addition of line 2322
sign_subtract_NoAddBack(r, s) == SubChain(r, s, 0, 1, <<>>).v

\* lines 2320-2323: r - s with the order added back on a borrow
sign_subtract(r, s) ==
    LET d == SubChain(r, s, 0, 1, <<>>)
    IN IF d.c # 0 THEN AddChain(d.v, curve_order, 0, 1, <<>>).v ELSE d.v

\* lines 2312-2323: the response, signature[32..63]
sign_response(k, r, h) ==
    LET r1 == Call("Montgomery_multiply_mod_order", <<SubSeq(r, 1, 4), Montgomery_Rprime>>)
        r2 == Call("Montgomery_multiply_mod_order", <<r1, ONE>>)
        h1 == Call("Montgomery_multiply_mod_order", <<SubSeq(h, 1, 4), Montgomery_Rprime>>)
        h2 == Call("Montgomery_multiply_mod_order", <<h1, ONE>>)
        s1 == Call("Montgomery_multiply_mod_order", <<SubSeq(WordsOf(k), 1, 4), Montgomery_Rprime>>)
        h3 == Call("Montgomery_multiply_mod_order", <<h2, Montgomery_Rprime>>)
        s2 == Call("Montgomery_multiply_mod_order", <<s1, h3>>)
        s3 == Call("Montgomery_multiply_mod_order", <<s2, ONE>>)
    IN BytesOf(Call("sign_subtract", <<r2, s3>>))

\* the test of line 2343 with the mask 0x80 for signature[62]
verify_gate_Mask80(publicKey, signature) ==
    publicKey[16] >= 128 \/ signature[16] >= 128 \/ signature[63] >= 128 \/ signature[64] # 0

\* the test of line 2343
verify_gate(publicKey, signature) ==
    publicKey[16] >= 128 \/ signature[16] >= 128 \/ signature[63] >= 64 \/ signature[64] # 0

\* verify that goes on after decode whatever it returns
verify_next_DecodeUnchecked(at, ok) ==
    CASE at = "gate" -> IF ok THEN "decode" ELSE "done"
      [] at = "decode" -> "hash"
      [] at = "hash" -> "mul"
      [] at = "mul" -> IF ok THEN "loop" ELSE "done"
      [] at = "loop" -> IF ok THEN "loop" ELSE "norm"
      [] at = "norm" -> "encode"
      [] at = "encode" -> "done"

\* the control flow of verify and of the ecc_mul_double it calls: the place that follows
\* the place at, ok being the outcome of the test made there (at "gate" that the test of
\* line 2343 is false, at "decode" the value decode returns, at "mul" the value
\* ecc_point_validate returns, at "loop" that i >= 0 still holds)
verify_next(at, ok) ==
    CASE at = "gate" -> IF ok THEN "decode" ELSE "done"
      [] at = "decode" -> IF ok THEN "hash" ELSE "done"
      [] at = "hash" -> "mul"
      [] at = "mul" -> IF ok THEN "loop" ELSE "done"
      [] at = "loop" -> IF ok THEN "loop" ELSE "norm"
      [] at = "norm" -> "encode"
      [] at = "encode" -> "done"

\* memcmp(a, b, 32) == 0
memcmp_equal(a, b) == SubSeq(a, 1, 32) = SubSeq(b, 1, 32)

\* The public key of a subseed: the encoding of a*G for the private scalar a, the first
\* 32 bytes of KangarooTwelve(subseed), which are the k[0..31] that sign multiplies by
derivePublicKey(subseed) ==
    encode(Call("ecc_mul_fixed", <<WordsOf(Call("KangarooTwelve", <<subseed, 32, 32>>))>>).Q, FALSE)

----------------------------------------------------------------------------
\* the body of the function f applied to the arguments a
CallBody(f, a) ==
    CASE f = "_addcarry_u64" -> _addcarry_u64(a[1], a[2], a[3])
      [] f = "_subborrow_u64" -> _subborrow_u64(a[1], a[2], a[3])
      [] f = "_umul128" -> _umul128(a[1], a[2])
      [] f = "AddCarry2" -> AddCarry2(a[1], a[2], a[3], a[4])
      [] f = "fpmulTail" -> fpmulTail(a[1], a[2], a[3])
      [] f = "fpmul1271" -> fpmul1271(a[1], a[2])
      [] f = "fpsqr1271" -> fpsqr1271(a[1])
      [] f = "fpadd1271" -> fpadd1271(a[1], a[2])
      [] f = "fpsub1271" -> fpsub1271(a[1], a[2])
      [] f = "fpneg1271" -> fpneg1271(a[1])
      [] f = "mod1271" -> mod1271(a[1])
      [] f = "fpdiv1271" -> fpdiv1271(a[1])
      [] f = "fp2neg1271" -> fp2neg1271(a[1])
      [] f = "FieldConstants" -> FieldConstants
      [] f = "ShiftScalar" -> ShiftScalar(a[1])
      [] f = "fpexp1251" -> fpexp1251(a[1])
      [] f = "fp2mul1271" -> fp2mul1271(a[1], a[2])
      [] f = "fp2sqr1271" -> fp2sqr1271(a[1])
      [] f = "fp2add1271" -> fp2add1271(a[1], a[2])
      [] f = "fp2sub1271" -> fp2sub1271(a[1], a[2])
      [] f = "eccnorm" -> eccnorm(a[1])
      [] f = "R1_to_R2" -> R1_to_R2(a[1])
      [] f = "R1_to_R3" -> R1_to_R3(a[1])
      [] f = "R2_to_R4" -> R2_to_R4(a[1])
      [] f = "eccdouble" -> eccdouble(a[1])
      [] f = "eccadd_core" -> eccadd_core(a[1], a[2])
      [] f = "eccadd" -> eccadd(a[1], a[2])
      [] f = "point_setup" -> point_setup(a[1])
      [] f = "ecc_point_validate" -> ecc_point_validate(a[1])
      [] f = "eccmadd" -> eccmadd(a[1], a[2])
      [] f = "ecc_tau" -> ecc_tau(a[1])
      [] f = "ecc_tau_dual" -> ecc_tau_dual(a[1])
      [] f = "ecc_delphidel" -> ecc_delphidel(a[1])
      [] f = "ecc_delpsidel" -> ecc_delpsidel(a[1])
      [] f = "ecc_psi" -> ecc_psi(a[1])
      [] f = "ecc_phi" -> ecc_phi(a[1])
      [] f = "eccneg_extproj_precomp" -> eccneg_extproj_precomp(a[1])
      [] f = "eccneg_precomp" -> eccneg_precomp(a[1])
      [] f = "ExecStep" -> ExecStep(a[1], a[2])
      [] f = "Exec" -> Exec(a[1], a[2])
      [] f = "multiply_stmt" -> multiply_stmt(a[1], a[2])
      [] f = "multiply" -> multiply(a[1], a[2])
      [] f = "Montgomery_Q_stmt" -> Montgomery_Q_stmt(a[1], a[2])
      [] f = "Montgomery_Reduce" -> Montgomery_Reduce(a[1], a[2])
      [] f = "Montgomery_multiply_mod_order" -> Montgomery_multiply_mod_order(a[1], a[2])
      [] f = "mul_truncate_stmt" -> mul_truncate_stmt(a[1], a[2])
      [] f = "mul_truncate" -> mul_truncate(a[1], a[2])
      [] f = "Dot4" -> Dot4(a[1], a[2], a[3], a[4], a[5], a[6], a[7], a[8], a[9])
      [] f = "decompose_scalars" -> decompose_scalars(a[1])
      [] f = "decompose" -> decompose(a[1])
      [] f = "FIXED_BASE_TABLE" -> PrecompAt(FIXED_BASE_TABLE, a[1])
      [] f = "DOUBLE_SCALAR_TABLE" -> PrecompAt(DOUBLE_SCALAR_TABLE, a[1])
      [] f = "decode_root" -> decode_root(a[1])
      [] f = "decode_halve" -> decode_halve(a[1])
      [] f = "decode_sign" -> decode_sign(a[1], a[2])
      [] f = "table_lookup_fixed_base" -> table_lookup_fixed_base(a[1], a[2])
      [] f = "ecc_mul_fixed_scalar" -> ecc_mul_fixed_scalar(a[1])
      [] f = "ecc_mul_fixed_add" -> ecc_mul_fixed_add(a[1], a[2])
      [] f = "ecc_mul_fixed_digit" -> ecc_mul_fixed_digit(a[1], a[2])
      [] f = "ecc_mul_fixed_stmt" -> ecc_mul_fixed_stmt(a[1], a[2])
      [] f = "ecc_mul_fixed" -> ecc_mul_fixed(a[1])
      [] f = "wNAF_recode_step" -> wNAF_recode_step(a[1], a[2])
      [] f = "wNAF_recode" -> wNAF_recode(a[1], a[2])
      [] f = "ecc_precomp_double" -> ecc_precomp_double(a[1])
      [] f = "ecc_mul_double_addQ" -> ecc_mul_double_addQ(a[1], a[2], a[3])
      [] f = "ecc_mul_double_addG" -> ecc_mul_double_addG(a[1], a[2], a[3])
      [] f = "ecc_mul_double_setup" -> ecc_mul_double_setup(a[1], a[2], a[3])
      [] f = "ecc_mul_double_step" -> ecc_mul_double_step(a[1], a[2])
      [] f = "encode" -> encode(a[1], a[2])
      [] f = "decode_setup" -> decode_setup(a[1])
      [] f = "decode_retry" -> decode_retry(a[1])
      [] f = "decode_validate" -> decode_validate(a[1])
      [] f = "decode" -> decode(a[1])
      [] f = "sign_nonce" -> sign_nonce(a[1])
      [] f = "sign_commit" -> sign_commit(a[1])
      [] f = "sign_challenge" -> sign_challenge(a[1], a[2], a[3])
      [] f = "sign_subtract" -> sign_subtract(a[1], a[2])
      [] f = "sign_response" -> sign_response(a[1], a[2], a[3])
      [] f = "derivePublicKey" -> derivePublicKey(a[1])
      [] f = "KeccakP1600_Permute_12rounds" -> KeccakP1600_Permute_12rounds(a[1])
      [] f = "KangarooTwelve_F_Absorb" -> KangarooTwelve_F_Absorb(a[1], a[2], a[3])
      [] f = "K12_First" -> K12_First(a[1])
      [] f = "K12_TreeBegin" -> K12_TreeBegin(a[1])
      [] f = "K12_Chunk" -> K12_Chunk(a[1])
      [] f = "K12_Tail" -> K12_Tail(a[1])
      [] f = "K12_ExactChunk" -> K12_ExactChunk(a[1])
      [] f = "K12_Short" -> K12_Short(a[1])
      [] f = "K12_Final" -> K12_Final(a[1])
      [] f = "KangarooTwelve" -> KangarooTwelve(a[1], a[2], a[3])

\* a call: the arguments are evaluated before the body, as in C
Call(f, a) == Then(a, CallBody(f, a))

----------------------------------------------------------------------------
(* The state.  Each specification below runs one part of the program; the   *)
(* variables of the other parts stay idle.                                  *)

VARIABLES
    k12pc,      \* where the KangarooTwelve call stands
    k12c,       \* its locals (K12_Enter)
    k12output,  \* the caller's output buffer after line 594
    sigpc,      \* where the run of sign followed by verify stands
    sig,        \* the caller's buffers and the locals of sign / signWithNonceK
    vfy,        \* the arguments and locals of verify, and the calls it has made
    fxpc,       \* where the two runs of ecc_mul_fixed stand
    fx,         \* their scalars and locals
    cdpc,       \* where the run of encode followed by decode stands
    cd,         \* the point, its encoding and the locals of decode
    fppc,       \* where the run of the field functions stands
    fp,         \* their operands and results
    hm,         \* the HM25Plus contract: its state and what has gone in and out
    av,         \* the argument vector and the verdicts of the two scans
    contractState,  \* the voting contract
    calls,      \* the calls made on the voting contract, with what they returned
    ex,         \* the run of executeRealQubicTransaction: its arguments, place and steps
    rc          \* the run of wNAF_recode or decompose: its argument and result

k12vars == <<k12pc, k12c, k12output>>
sigvars == <<sigpc, sig, vfy>>
fxvars == <<fxpc, fx>>
cdvars == <<cdpc, cd>>
fpvars == <<fppc, fp>>
votevars == <<contractState, calls>>
vars == <<k12pc, k12c, k12output, sigpc, sig, vfy, fxpc, fx, cdpc, cd, fppc, fp, hm, av,
          contractState, calls, ex, rc>>

K12Idle == k12pc = "idle" /\ k12c = <<>> /\ k12output = <<>>
SigIdle == sigpc = "idle" /\ sig = <<>> /\ vfy = <<>>
FxIdle == fxpc = "idle" /\ fx = <<>>
CdIdle == cdpc = "idle" /\ cd = <<>>
FpIdle == fppc = "idle" /\ fp = <<>>
HmIdle == hm = <<>>
AvIdle == av = <<>>
VoteIdle == contractState = <<>> /\ calls = <<>>
ExIdle == ex = <<>>
RcIdle == rc = <<>>

----------------------------------------------------------------------------
(* SpecK12: one call of KangarooTwelve, phase by phase *)

\* the repeating pattern 00 01 .. FA of the KangarooTwelve test vectors, L bytes of it
ptn(L) == Tup([i \in 1..L |-> (i - 1) % 251], L)

\* input lengths around the block boundaries of a short input and around the chunk boundaries
MaxShortBlocks == 2
MaxTreeChunks == 2
K12_ShortLens == {0, 1, 32, 64, 96} \cup
                 UNION {{k * K12_rateInBytes - 2, k * K12_rateInBytes - 1, k * K12_rateInBytes,
                         k * K12_rateInBytes + 1} : k \in 1..MaxShortBlocks}
K12_LongLens == UNION {{k * K12_chunkSize - 1, k * K12_chunkSize, k * K12_chunkSize + 1} : k \in 1..MaxTreeChunks}
\* output lengths: the digests the signature code asks for, the rate, the state size, and one more than each
K12_OutLens == {32, 64, K12_rateInBytes, K12_rateInBytes + 1, 200, 201}

\* the calls explored: <<inputByteLen, outputByteLen>>
K12_Calls == (K12_ShortLens \X {32, 64}) \cup ({0, 32} \X K12_OutLens) \cup (K12_LongLens \X {32})

K12Init ==
    /\ k12pc = "enter"
    /\ \E call \in K12_Calls : k12c = K12_Enter(ptn(call[1]), call[1], call[2])
    /\ k12output = <<>>
    /\ SigIdle /\ FxIdle /\ CdIdle /\ FpIdle /\ HmIdle /\ AvIdle /\ VoteIdle /\ ExIdle /\ RcIdle

K12First ==
    /\ k12pc = "enter"
    /\ k12c' = Call("K12_First", <<k12c>>)
    /\ k12pc' = "first"
    /\ UNCHANGED k12output
    /\ UNCHANGED <<sigvars, fxvars, cdvars, fpvars, hm, av, votevars, ex, rc>>

K12TreeBegin ==
    /\ k12pc = "first"
    /\ k12c.len = K12_chunkSize /\ k12c.inputByteLen # 0
    /\ k12c' = Call("K12_TreeBegin", <<k12c>>)
    /\ k12pc' = "loop"
    /\ UNCHANGED k12output
    /\ UNCHANGED <<sigvars, fxvars, cdvars, fpvars, hm, av, votevars, ex, rc>>

K12Chunk ==
    /\ k12pc = "loop"
    /\ k12c.inputByteLen > 0
    /\ k12c' = Call("K12_Chunk", <<k12c>>)
    /\ UNCHANGED <<k12pc, k12output, ex, rc>>
    /\ UNCHANGED <<sigvars, fxvars, cdvars, fpvars, hm, av, votevars, ex, rc>>

K12Tail ==
    /\ k12pc = "loop"
    /\ ~(k12c.inputByteLen > 0)
    /\ k12c' = Call("K12_Tail", <<k12c>>)
    /\ k12pc' = "final"
    /\ UNCHANGED k12output
    /\ UNCHANGED <<sigvars, fxvars, cdvars, fpvars, hm, av, votevars, ex, rc>>

K12ExactChunk ==
    /\ k12pc = "first"
    /\ ~(k12c.len = K12_chunkSize /\ k12c.inputByteLen # 0)
    /\ k12c.len = K12_chunkSize
    /\ k12c' = Call("K12_ExactChunk", <<k12c>>)
    /\ k12pc' = "final"
    /\ UNCHANGED k12output
    /\ UNCHANGED <<sigvars, fxvars, cdvars, fpvars, hm, av, votevars, ex, rc>>

K12Short ==
    /\ k12pc = "first"
    /\ ~(k12c.len = K12_chunkSize /\ k12c.inputByteLen # 0)
    /\ k12c.len # K12_chunkSize
    /\ k12c' = Call("K12_Short", <<k12c>>)
    /\ k12pc' = "final"
    /\ UNCHANGED k12output
    /\ UNCHANGED <<sigvars, fxvars, cdvars, fpvars, hm, av, votevars, ex, rc>>

K12Final ==
    /\ k12pc = "final"
    /\ k12c' = Call("K12_Final", <<k12c>>)
    /\ k12pc' = "squeeze"
    /\ UNCHANGED k12output
    /\ UNCHANGED <<sigvars, fxvars, cdvars, fpvars, hm, av, votevars, ex, rc>>

\* line 594: memcpy(output, finalNode.state, outputByteLen).  The source object has
\* sizeof(state) = 200 bytes; what a longer copy reads after them is not defined by
\* the language, so each byte beyond is any byte.
K12Squeeze ==
    /\ k12pc = "squeeze"
    /\ IF k12c.outputByteLen <= 200
       THEN k12output' = SubSeq(k12c.finalNode.state, 1, k12c.outputByteLen)
       ELSE \E beyond \in [1..(k12c.outputByteLen - 200) -> 0..255] : k12output' = k12c.finalNode.state \o beyond
    /\ k12pc' = "done"
    /\ UNCHANGED k12c
    /\ UNCHANGED <<sigvars, fxvars, cdvars, fpvars, hm, av, votevars, ex, rc>>

K12Next ==
    \/ K12First
    \/ K12TreeBegin
    \/ K12Chunk
    \/ K12Tail
    \/ K12ExactChunk
    \/ K12Short
    \/ K12Final
    \/ K12Squeeze

SpecK12 == K12Init /\ [][K12Next]_vars

----------------------------------------------------------------------------
(* SpecSig: a key pair is derived from a subseed, sign signs a digest, and  *)
(* verify is called on the public key, a digest and a signature that the    *)
(* caller may have altered on the way.                                      *)

\* subseeds and digests are taken from two families of byte patterns
MaxSubseed == 1
MaxDigest == 1
\* calls of sign and of verify in one run
MaxSignCalls == 2
MaxVerifyCalls == 1
SubseedOf(n) == Tup([i \in 1..32 |-> (7 * n + (i - 1) * n) % 256], 32)
DigestOf(m) == Tup([i \in 1..32 |-> (3 * m + 5 * (i - 1) * m) % 256], 32)

\* what the caller does to the arguments of verify
Tamperings ==
    {"none", "publicKey[15] |= 0x80", "signature[15] |= 0x80", "signature[62] |= 0x40",
     "signature[62] |= 0x80", "signature[63] |= 0x01", "response += order",
     "messageDigest[0] ^= 0x01", "publicKey[0] ^= 0x04"}

SetBit(bytes, i, b) == [bytes EXCEPT ![i + 1] = IF (@ \div b) % 2 = 1 THEN @ ELSE @ + b]
FlipBit(bytes, i, b) == [bytes EXCEPT ![i + 1] = IF (@ \div b) % 2 = 1 THEN @ - b ELSE @ + b]

\* the arguments of verify after the tampering t
Tampered(t, publicKey, messageDigest, signature) ==
    [publicKey |-> IF t = "publicKey[15] |= 0x80" THEN SetBit(publicKey, 15, 128)
                   ELSE IF t = "publicKey[0] ^= 0x04" THEN FlipBit(publicKey, 0, 4)
                   ELSE publicKey,
     messageDigest |-> IF t = "messageDigest[0] ^= 0x01" THEN FlipBit(messageDigest, 0, 1)
                       ELSE messageDigest,
     signature |-> IF t = "signature[15] |= 0x80" THEN SetBit(signature, 15, 128)
                   ELSE IF t = "signature[62] |= 0x40" THEN SetBit(signature, 62, 64)
                   ELSE IF t = "signature[62] |= 0x80" THEN SetBit(signature, 62, 128)
                   ELSE IF t = "signature[63] |= 0x01" THEN SetBit(signature, 63, 1)
                   ELSE IF t = "response += order"
                   THEN SubSeq(signature, 1, 32)
                        \o BytesOf(AddChain(WordsOf(SubSeq(signature, 33, 64)), curve_order, 0, 1, <<>>).v)
                   ELSE signature]

\* temp is the local of signWithNonceK that is read before all of it is written: it starts
\* with what the stack holds
SigInit ==
    /\ sigpc = "start"
    /\ \E n \in 0..MaxSubseed, m \in 0..MaxDigest :
           sig = [subseed |-> SubseedOf(n), messageDigest |-> DigestOf(m), temp |-> Zeros(96),
                  signs |-> 0, verifies |-> 0]
    /\ vfy = <<>>
    /\ K12Idle /\ FxIdle /\ CdIdle /\ FpIdle /\ HmIdle /\ AvIdle /\ VoteIdle /\ ExIdle /\ RcIdle

\* getPublicKeyFromSeed from the subseed on
GetPublicKey ==
    /\ sigpc = "start"
    /\ sig' = sig @@ [publicKey |-> Call("derivePublicKey", <<sig.subseed>>)]
    /\ sigpc' = "keyed"
    /\ UNCHANGED <<vfy, k12vars, fxvars, cdvars, fpvars, hm, av, votevars, ex, rc>>

\* sign, line 2333
SignExpand ==
    /\ sigpc = "keyed"
    /\ sig' = [sig EXCEPT !.signs = @ + 1] @@ [k |-> Call("KangarooTwelve", <<sig.subseed, 32, 64>>)]
    /\ sigpc' = "expanded"
    /\ UNCHANGED <<vfy, k12vars, fxvars, cdvars, fpvars, hm, av, votevars, ex, rc>>

\* signWithNonceK, lines 2301-2304
SignNonce ==
    /\ sigpc = "expanded"
    /\ \E temp \in {sign_temp(sig.temp, sig.k, sig.messageDigest)} :
           sig' = [sig EXCEPT !.temp = temp] @@ [r |-> Call("sign_nonce", <<temp>>)]
    /\ sigpc' = "nonce"
    /\ UNCHANGED <<vfy, k12vars, fxvars, cdvars, fpvars, hm, av, votevars, ex, rc>>

\* lines 2306-2307
SignCommit ==
    /\ sigpc = "nonce"
    /\ sig' = sig @@ [signature |-> Call("sign_commit", <<sig.r>>)]
    /\ sigpc' = "committed"
    /\ UNCHANGED <<vfy, k12vars, fxvars, cdvars, fpvars, hm, av, votevars, ex, rc>>

\* lines 2308-2311
SignChallenge ==
    /\ sigpc = "committed"
    /\ \E temp \in {sig.signature \o sig.publicKey \o SubSeq(sig.temp, 65, 96)} :
           sig' = [sig EXCEPT !.temp = temp]
                 @@ [h |-> Call("sign_challenge", <<SubSeq(temp, 1, 32), SubSeq(temp, 33, 64), SubSeq(temp, 65, 96)>>)]
    /\ sigpc' = "challenged"
    /\ UNCHANGED <<vfy, k12vars, fxvars, cdvars, fpvars, hm, av, votevars, ex, rc>>

\* lines 2312-2323
SignResponse ==
    /\ sigpc = "challenged"
    /\ sig' = [sig EXCEPT !.signature = @ \o Call("sign_response", <<sig.k, sig.r, sig.h>>)]
    /\ sigpc' = "signed"
    /\ UNCHANGED <<vfy, k12vars, fxvars, cdvars, fpvars, hm, av, votevars, ex, rc>>

\* the caller calls sign again with the same arguments after verify has returned: the
\* locals of the new call start with what the calls before left on the stack
SignAgain ==
    /\ sigpc = "done"
    /\ sig.signs < MaxSignCalls
    /\ sig' = [subseed |-> sig.subseed, messageDigest |-> sig.messageDigest, publicKey |-> sig.publicKey,
               temp |-> sig.temp, signs |-> sig.signs, verifies |-> sig.verifies,
               previous |-> sig.signature]
    /\ vfy' = <<>>
    /\ sigpc' = "keyed"
    /\ UNCHANGED <<k12vars, fxvars, cdvars, fpvars, hm, av, votevars, ex, rc>>

\* the caller passes the public key, the digest and the signature to verify
Submit ==
    /\ sigpc = "signed"
    /\ sig.verifies < MaxVerifyCalls
    /\ \E t \in Tamperings :
       \E a \in {Tampered(t, sig.publicKey, sig.messageDigest, sig.signature)} :
              vfy' = [tamper |-> t, publicKey |-> a.publicKey, messageDigest |-> a.messageDigest,
                      signature |-> a.signature, calls |-> <<>>]
    /\ sigpc' = "gate"
    /\ sig' = [sig EXCEPT !.verifies = @ + 1]
    /\ UNCHANGED <<k12vars, fxvars, cdvars, fpvars, hm, av, votevars, ex, rc>>

\* verify, lines 2343-2346
VerifyGate ==
    /\ sigpc = "gate"
    /\ \E rejected \in {verify_gate(vfy.publicKey, vfy.signature)} :
          /\ sigpc' = verify_next("gate", ~rejected)
          /\ vfy' = IF rejected THEN vfy @@ [return |-> FALSE] ELSE vfy
    /\ UNCHANGED <<sig, k12vars, fxvars, cdvars, fpvars, hm, av, votevars, ex, rc>>

\* lines 2348-2351
VerifyDecode ==
    /\ sigpc = "decode"
    /\ \E d \in {Call("decode", <<vfy.publicKey>>)} :
       \E v \in {[vfy EXCEPT !.calls = Append(@, "decode")] @@ [decoded |-> d.return, A |-> d.P]} :
          /\ sigpc' = verify_next("decode", d.return)
          /\ vfy' = IF verify_next("decode", d.return) = "done" THEN v @@ [return |-> FALSE] ELSE v
    /\ UNCHANGED <<sig, k12vars, fxvars, cdvars, fpvars, hm, av, votevars, ex, rc>>

\* lines 2352-2356
VerifyHash ==
    /\ sigpc = "hash"
    /\ vfy' = [vfy EXCEPT !.calls = Append(@, "KangarooTwelve")]
              @@ [h |-> Call("sign_challenge", <<SubSeq(vfy.signature, 1, 32), vfy.publicKey, vfy.messageDigest>>)]
    /\ sigpc' = verify_next("hash", TRUE)
    /\ UNCHANGED <<sig, k12vars, fxvars, cdvars, fpvars, hm, av, votevars, ex, rc>>

\* line 2358 and ecc_mul_double up to its loop, lines 1936-1980.  A recoding that writes
\* beyond its 65 digits overwrites other locals of ecc_mul_double: the call then returns
\* either value, with any of the points at hand in A.
VerifyMulBegin ==
    /\ sigpc = "mul"
    /\ \E Q1 \in {Call("point_setup", <<vfy.A>>)} :
       \E valid \in {Call("ecc_point_validate", <<Q1>>)} :
       \E v \in {[vfy EXCEPT !.calls = Append(@, "ecc_mul_double")] @@ [multiplied |-> valid]} :
          IF ~valid
          THEN /\ sigpc' = verify_next("mul", FALSE)
               /\ vfy' = IF verify_next("mul", FALSE) = "done" THEN v @@ [return |-> FALSE] ELSE v
          ELSE \E e \in {Call("ecc_mul_double_setup",
                                <<WordsOf(SubSeq(vfy.signature, 33, 64)), SubSeq(vfy.h, 1, 4), Q1>>)} :
                  IF e.overrun
                  THEN \E b \in BOOLEAN :
                           /\ sigpc' = IF b THEN "encode" ELSE "done"
                           /\ vfy' = IF b THEN [v EXCEPT !.multiplied = TRUE]
                                     ELSE [v EXCEPT !.multiplied = FALSE] @@ [return |-> FALSE]
                  ELSE /\ sigpc' = verify_next("mul", TRUE)
                       /\ vfy' = v @@ [e |-> e, i |-> 64]
    /\ UNCHANGED <<sig, k12vars, fxvars, cdvars, fpvars, hm, av, votevars, ex, rc>>

\* one iteration of the loop of line 1982
VerifyMulStep ==
    /\ sigpc = "loop"
    /\ vfy' = [vfy EXCEPT !.e = Call("ecc_mul_double_step", <<vfy.i, vfy.e>>), !.i = @ - 1]
    /\ sigpc' = verify_next("loop", vfy.i - 1 >= 0)
    /\ UNCHANGED <<sig, k12vars, fxvars, cdvars, fpvars, hm, av, votevars, ex, rc>>

\* lines 2067-2069
VerifyMulEnd ==
    /\ sigpc = "norm"
    /\ vfy' = [vfy EXCEPT !.A = Call("eccnorm", <<vfy.e.T>>), !.e = <<>>]
    /\ sigpc' = verify_next("norm", TRUE)
    /\ UNCHANGED <<sig, k12vars, fxvars, cdvars, fpvars, hm, av, votevars, ex, rc>>

\* lines 2363-2365
VerifyEncode ==
    /\ sigpc = "encode"
    /\ \E encoded \in {encode(vfy.A, TRUE)} :
          vfy' = [vfy EXCEPT !.calls = Append(@, "encode")]
                 @@ [encoded |-> encoded, return |-> memcmp_equal(encoded, vfy.signature)]
    /\ sigpc' = verify_next("encode", TRUE)
    /\ UNCHANGED <<sig, k12vars, fxvars, cdvars, fpvars, hm, av, votevars, ex, rc>>

SigNext ==
    \/ GetPublicKey
    \/ SignExpand
    \/ SignNonce
    \/ SignCommit
    \/ SignChallenge
    \/ SignResponse
    \/ Submit
    \/ VerifyGate
    \/ VerifyDecode
    \/ VerifyHash
    \/ VerifyMulBegin
    \/ VerifyMulStep
    \/ VerifyMulEnd
    \/ VerifyEncode
    \/ SignAgain

SpecSig == SigInit /\ [][SigNext]_vars

----------------------------------------------------------------------------
(* SpecFixed: ecc_mul_fixed run twice, on two different scalars, each run   *)
(* in the three parts of the function.                                      *)

\* the scalars are 0..MaxFixedScalar
MaxFixedScalar == 4
FixedScalar(n) == <<W64(n), ZERO64, ZERO64, ZERO64>>

FxInit ==
    /\ fxpc = "start"
    /\ \E m \in 0..MaxFixedScalar, n \in 0..MaxFixedScalar :
          /\ m # n
          /\ fx = [k |-> <<FixedScalar(m), FixedScalar(n)>>, run |-> 1, runs |-> <<>>]
    /\ K12Idle /\ SigIdle /\ CdIdle /\ FpIdle /\ HmIdle /\ AvIdle /\ VoteIdle /\ ExIdle /\ RcIdle

\* lines 1494-1510: the scalar is reduced, made odd and halved
FxReduce ==
    /\ fxpc = "start"
    /\ \E p \in {Call("ecc_mul_fixed_scalar", <<fx.k[fx.run]>>)} :
          fx' = [k |-> fx.k, run |-> fx.run, runs |-> fx.runs, scalar |-> p.scalar,
                 trace |-> <<<<"if (!(scalar[0] & 1))", ~p.odd>>>>]
    /\ fxpc' = "reduced"
    /\ UNCHANGED <<k12vars, sigvars, cdvars, fpvars, hm, av, votevars, ex, rc>>

\* lines 1512-1548: the 250 digits
FxRecode ==
    /\ fxpc = "reduced"
    /\ \E g \in {Run("ecc_mul_fixed_digit", 0, 249, [scalar |-> fx.scalar, digits |-> <<>>])} :
          fx' = [k |-> fx.k, run |-> fx.run, runs |-> fx.runs, digits |-> g.digits, trace |-> fx.trace]
    /\ fxpc' = "recoded"
    /\ UNCHANGED <<k12vars, sigvars, cdvars, fpvars, hm, av, votevars, ex, rc>>

\* lines 1549-1569: the lookups, additions and doublings, and the normalisation; the run
\* is over, and the second run starts after the first
FxEvaluate ==
    /\ fxpc = "recoded"
    /\ \E r \in {Run("ecc_mul_fixed_stmt", 1, Len(ecc_mul_fixed_code),
                     [regs |-> <<>>, digits |-> fx.digits, trace |-> fx.trace])} :
          fx' = [k |-> fx.k, run |-> fx.run + 1,
                 runs |-> Append(fx.runs, [Q |-> Unbind("Q", r.regs, point_affine), trace |-> r.trace])]
    /\ fxpc' = IF fx.run = 1 THEN "start" ELSE "done"
    /\ UNCHANGED <<k12vars, sigvars, cdvars, fpvars, hm, av, votevars, ex, rc>>

FxNext ==
    \/ FxReduce
    \/ FxRecode
    \/ FxEvaluate

SpecFixed == FxInit /\ [][FxNext]_vars

----------------------------------------------------------------------------
(* SpecCodec: encode of a point, then decode of the 32 bytes, part by part  *)

\* the points are the four of order 1, 2 and 4 and k*G, -(k*G) for k in 1..MaxCodecScalar
MaxCodecScalar == 2
\* the bytes given to decode are those of encode with byte 0 xor t, t in 0..MaxTamper
MaxTamper == 1

FelmZero == <<ZERO64, ZERO64>>
FelmOne == <<ONE64, ZERO64>>
FelmMinusOne == <<<<254, 255, 255, 255, 255, 255, 255, 255>>, MASK63>>
\* (0, 1), (0, -1), (i, 0) and (-i, 0)
EdgePoints ==
    {[x |-> <<FelmZero, FelmZero>>, y |-> <<FelmOne, FelmZero>>],
     [x |-> <<FelmZero, FelmZero>>, y |-> <<FelmMinusOne, FelmZero>>],
     [x |-> <<FelmZero, FelmOne>>, y |-> <<FelmZero, FelmZero>>],
     [x |-> <<FelmZero, FelmMinusOne>>, y |-> <<FelmZero, FelmZero>>]}
Multiples ==
    UNION {LET Q == Call("ecc_mul_fixed", <<<<W64(k), ZERO64, ZERO64, ZERO64>>>>).Q
           IN {Q, [Q EXCEPT !.x = fp2neg1271(Q.x)]} : k \in 1..MaxCodecScalar}
CodecPoints == EdgePoints \cup Multiples

Tamper(Pencoded, t) == [Pencoded EXCEPT ![1] = XorTab[256 * @ + t + 1]]

CdInit ==
    /\ cdpc = "start"
    /\ \E P \in CodecPoints, t \in 0..MaxTamper : cd = [P |-> P, tamper |-> t]
    /\ K12Idle /\ SigIdle /\ FxIdle /\ FpIdle /\ HmIdle /\ AvIdle /\ VoteIdle /\ ExIdle /\ RcIdle

\* encode(P, Pencoded), and the bytes that decode is called with
CdEncode ==
    /\ cdpc = "start"
    /\ \E e \in {Call("encode", <<cd.P, FALSE>>)} :
          cd' = cd @@ [encoded |-> e, Pencoded |-> Tamper(e, cd.tamper), tried |-> <<>>]
    /\ cdpc' = "encoded"
    /\ UNCHANGED <<k12vars, sigvars, fxvars, fpvars, hm, av, votevars, ex, rc>>

\* decode, lines 2211-2232
CdLoad ==
    /\ cdpc = "encoded"
    /\ \E r \in {Call("Exec", <<decode_code1, decode_load(cd.Pencoded)>>)} : cd' = cd @@ [regs |-> r]
    /\ cdpc' = "loaded"
    /\ UNCHANGED <<k12vars, sigvars, fxvars, fpvars, hm, av, votevars, ex, rc>>

\* decode, lines 2234-2248
CdRoot ==
    /\ cdpc = "loaded"
    /\ \E r \in {Call("Exec", <<decode_code2, Call("decode_root", <<cd.regs>>)>>)} :
          cd' = [cd EXCEPT !.regs = r]
    /\ cdpc' = "rooted"
    /\ UNCHANGED <<k12vars, sigvars, fxvars, fpvars, hm, av, votevars, ex, rc>>

\* decode, lines 2250-2268
CdHalve ==
    /\ cdpc = "rooted"
    /\ \E r \in {Call("decode_halve", <<cd.regs>>)} : cd' = [cd EXCEPT !.regs = r]
    /\ cdpc' = "halved"
    /\ UNCHANGED <<k12vars, sigvars, fxvars, fpvars, hm, av, votevars, ex, rc>>

\* decode, lines 2270-2275
CdSign ==
    /\ cdpc = "halved"
    /\ \E r \in {Call("decode_sign", <<cd.regs, cd.Pencoded>>)} : cd' = [cd EXCEPT !.regs = r]
    /\ cdpc' = "signed"
    /\ UNCHANGED <<k12vars, sigvars, fxvars, fpvars, hm, av, votevars, ex, rc>>

\* decode, lines 2277-2278 and, for a candidate that validates, line 2289
CdValidate ==
    /\ cdpc = "signed"
    /\ \E c \in {Call("decode_setup", <<Unbind("P", cd.regs, point_affine)>>)} :
          /\ cd' = [P |-> cd.P, tamper |-> cd.tamper, encoded |-> cd.encoded, Pencoded |-> cd.Pencoded,
                    tried |-> <<c>>, D |-> c.P] @@ (IF c.valid THEN [return |-> TRUE] ELSE <<>>)
          /\ cdpc' = IF c.valid THEN "done" ELSE "retry"
    /\ UNCHANGED <<k12vars, sigvars, fxvars, fpvars, hm, av, votevars, ex, rc>>

\* decode, lines 2280-2289
CdRetry ==
    /\ cdpc = "retry"
    /\ \E c \in {Call("decode_retry", <<cd.tried[1]>>)} :
          cd' = [cd EXCEPT !.tried = Append(@, c), !.D = c.P] @@ [return |-> c.valid]
    /\ cdpc' = "done"
    /\ UNCHANGED <<k12vars, sigvars, fxvars, fpvars, hm, av, votevars, ex, rc>>

CdNext ==
    \/ CdEncode
    \/ CdLoad
    \/ CdRoot
    \/ CdHalve
    \/ CdSign
    \/ CdValidate
    \/ CdRetry

SpecCodec == CdInit /\ [][CdNext]_vars

----------------------------------------------------------------------------
(* SpecField: fpadd1271 or fpsub1271 on two field elements, then mod1271 on *)
(* the result.                                                              *)

\* how many elements without a special form are tried, besides the special ones
MaxFieldPattern == 2
FieldPattern(n) ==
    <<Tup([i \in 1..8 |-> (37 * n + 101 * i * n) % 256], 8),
      And63(Tup([i \in 1..8 |-> (211 * n + 59 * i * n) % 256], 8))>>

\* 0, 1, 2^64 - 1, 2^64, 2^126, p - 1 and p = 2^127 - 1 in two-word form, and the patterns
FieldInputs ==
    {<<ZERO64, ZERO64>>, <<ONE64, ZERO64>>, <<ALLONES, ZERO64>>, <<ZERO64, ONE64>>,
     <<ZERO64, <<0, 0, 0, 0, 0, 0, 0, 64>>>>, <<<<254, 255, 255, 255, 255, 255, 255, 255>>, MASK63>>,
     <<ALLONES, MASK63>>}
    \cup {FieldPattern(n) : n \in 1..MaxFieldPattern}

FpInit ==
    /\ fppc = "start"
    /\ \E a \in FieldInputs, b \in FieldInputs : fp = [a |-> a, b |-> b]
    /\ K12Idle /\ SigIdle /\ FxIdle /\ CdIdle /\ HmIdle /\ AvIdle /\ VoteIdle /\ ExIdle /\ RcIdle

FpAdd ==
    /\ fppc = "start"
    /\ \E c \in {Call("fpadd1271", <<fp.a, fp.b>>)} :
          fp' = fp @@ [op |-> "fpadd1271", c |-> c]
    /\ fppc' = "computed"
    /\ UNCHANGED <<k12vars, sigvars, fxvars, cdvars, hm, av, votevars, ex, rc>>

FpSub ==
    /\ fppc = "start"
    /\ \E c \in {Call("fpsub1271", <<fp.a, fp.b>>)} :
          fp' = fp @@ [op |-> "fpsub1271", c |-> c]
    /\ fppc' = "computed"
    /\ UNCHANGED <<k12vars, sigvars, fxvars, cdvars, hm, av, votevars, ex, rc>>

FpMod ==
    /\ fppc = "computed"
    /\ \E r \in {Call("mod1271", <<fp.c>>)} :
          fp' = fp @@ [r |-> r]
    /\ fppc' = "reduced"
    /\ UNCHANGED <<k12vars, sigvars, fxvars, cdvars, hm, av, votevars, ex, rc>>

FpNext ==
    \/ FpAdd
    \/ FpSub
    \/ FpMod

SpecField == FpInit /\ [][FpNext]_vars

----------------------------------------------------------------------------
(* SpecHM25: the HM25Plus contract of example_code.cpp.  qpi.transfer and   *)
(* qpi.burn are the platform's; what they are called with is recorded.      *)

\* the largest invocation reward of a call, and how many calls a run makes
MaxReward == 4
MaxCalls == 3

\* the constructor, lines 40-45, and INITIALIZE, lines 105-110
HM25Plus == [numberOfEchoCalls |-> 0, numberOfBurnCalls |-> 0, numberOfBonusCalls |-> 0]

\* qpi.transfer(qpi.invocator(), amount) and qpi.burn(amount)
transfer(h, amount) == [h EXCEPT !.transferred = @ + amount, !.last.transferred = @ + amount]
burn(h, amount) == [h EXCEPT !.burned = @ + amount, !.last.burned = @ + amount]

\* a procedure is invoked with a reward, which the contract receives
Invoked(h, procedure, invocationReward) ==
    [h EXCEPT !.received = @ + invocationReward, !.calls = @ + 1,
              !.last = [procedure |-> procedure, invocationReward |-> invocationReward,
                        transferred |-> 0, burned |-> 0]]

Echo(h, invocationReward) ==
    LET counted == [h EXCEPT !.state.numberOfEchoCalls = @ + 1]
    IN IF invocationReward > 0 THEN transfer(counted, invocationReward) ELSE counted

Burn(h, invocationReward) ==
    LET counted == [h EXCEPT !.state.numberOfBurnCalls = @ + 1]
    IN IF invocationReward > 0 THEN burn(counted, invocationReward) ELSE counted

Bonus(h, invocationReward) ==
    LET counted == [h EXCEPT !.state.numberOfBonusCalls = @ + 1]
        reward == invocationReward
    IN IF reward > 1
       THEN burn(transfer(counted, reward \div 2), reward - (reward \div 2))
       ELSE counted

HmInit ==
    /\ hm = [state |-> HM25Plus, received |-> 0, transferred |-> 0, burned |-> 0, calls |-> 0,
             last |-> [procedure |-> "none", invocationReward |-> 0, transferred |-> 0, burned |-> 0]]
    /\ K12Idle /\ SigIdle /\ FxIdle /\ CdIdle /\ FpIdle /\ AvIdle /\ VoteIdle /\ ExIdle /\ RcIdle

HmEcho ==
    /\ hm.calls < MaxCalls
    /\ \E invocationReward \in 0..MaxReward :
          hm' = Echo(Invoked(hm, "Echo", invocationReward), invocationReward)
    /\ UNCHANGED <<k12vars, sigvars, fxvars, cdvars, fpvars, av, votevars, ex, rc>>

HmBurn ==
    /\ hm.calls < MaxCalls
    /\ \E invocationReward \in 0..MaxReward :
          hm' = Burn(Invoked(hm, "Burn", invocationReward), invocationReward)
    /\ UNCHANGED <<k12vars, sigvars, fxvars, cdvars, fpvars, av, votevars, ex, rc>>

HmBonus ==
    /\ hm.calls < MaxCalls
    /\ \E invocationReward \in 0..MaxReward :
          hm' = Bonus(Invoked(hm, "Bonus", invocationReward), invocationReward)
    /\ UNCHANGED <<k12vars, sigvars, fxvars, cdvars, fpvars, av, votevars, ex, rc>>

HmNext ==
    \/ HmEcho
    \/ HmBurn
    \/ HmBonus

SpecHM25 == HmInit /\ [][HmNext]_vars

----------------------------------------------------------------------------
(* SpecArgs: the two checks that --args and --params exclude each other, on *)
(* one argument vector.  argv[j] of the code is argv[j + 1] here.           *)

\* arguments after the program name
MaxArgs == 4
Arguments == {"--args", "--params", "--other", "value"}

RECURSIVE ArgVectors(_)
ArgVectors(n) ==
    IF n = 0 THEN {<<"program">>}
    ELSE ArgVectors(n - 1) \cup {Append(a, x) : a \in {b \in ArgVectors(n - 1) : Len(b) = n}, x \in Arguments}

strcmp_equal(s1, s2) == s1 = s2

\* testMutualExclusivity: the loop of lines 11-17 from j on
RECURSIVE testMutualExclusivity_scan(_, _, _, _, _)
testMutualExclusivity_scan(argc, argv, j, found_args, found_params) ==
    IF j < argc
    THEN IF strcmp_equal(argv[j + 1], "--args")
         THEN testMutualExclusivity_scan(argc, argv, j + 1, TRUE, found_params)
         ELSE IF strcmp_equal(argv[j + 1], "--params")
         THEN testMutualExclusivity_scan(argc, argv, j + 1, found_args, TRUE)
         ELSE testMutualExclusivity_scan(argc, argv, j + 1, found_args, found_params)
    ELSE [found_args |-> found_args, found_params |-> found_params]

testMutualExclusivity(argc, argv) ==
    LET found == testMutualExclusivity_scan(argc, argv, 1, FALSE, FALSE)
    IN IF found.found_args /\ found.found_params THEN FALSE ELSE TRUE

\* the first pass without the test of line 25
RECURSIVE first_pass_ArgsAfterParamsOnly(_, _, _, _, _)
first_pass_ArgsAfterParamsOnly(argc, argv, j, found_args, found_params) ==
    IF j < argc
    THEN IF strcmp_equal(argv[j + 1], "--args")
         THEN IF found_params THEN [return |-> 1]
              ELSE first_pass_ArgsAfterParamsOnly(argc, argv, j + 1, TRUE, found_params)
         ELSE IF strcmp_equal(argv[j + 1], "--params")
         THEN first_pass_ArgsAfterParamsOnly(argc, argv, j + 1, found_args, TRUE)
         ELSE first_pass_ArgsAfterParamsOnly(argc, argv, j + 1, found_args, found_params)
    ELSE [passed |-> TRUE]

\* test_mutual_exclusivity: the loop of lines 17-31 from j on; [return |-> 1] when it
\* returns from inside the loop
RECURSIVE first_pass(_, _, _, _, _)
first_pass(argc, argv, j, found_args, found_params) ==
    IF j < argc
    THEN IF strcmp_equal(argv[j + 1], "--args")
         THEN IF found_params THEN [return |-> 1]
              ELSE first_pass(argc, argv, j + 1, TRUE, found_params)
         ELSE IF strcmp_equal(argv[j + 1], "--params")
         THEN IF found_args THEN [return |-> 1]
              ELSE first_pass(argc, argv, j + 1, found_args, TRUE)
         ELSE first_pass(argc, argv, j + 1, found_args, found_params)
    ELSE [passed |-> TRUE]

\* lines 36-42: the outcomes of the second pass.  With argc = 2, argv[i + 2] is the null
\* pointer that ends argv, and a std::string made from it is undefined: the call returns 0
\* or does not return.
second_pass(argc, argv) ==
    LET i == 0
    IN IF i + 1 < argc /\ (strcmp_equal(argv[i + 2], "--args") \/ strcmp_equal(argv[i + 2], "--params"))
       THEN IF i + 2 < argc THEN {[return |-> 0, args_value |-> argv[i + 3]]}
            ELSE {[return |-> 0], [aborted |-> TRUE]}
       ELSE {[return |-> 0]}

AvInit ==
    /\ \E argv \in ArgVectors(MaxArgs) : av = [argc |-> Len(argv), argv |-> argv]
    /\ K12Idle /\ SigIdle /\ FxIdle /\ CdIdle /\ FpIdle /\ HmIdle /\ VoteIdle /\ ExIdle /\ RcIdle

\* testMutualExclusivity(argc, argv)
AvScanThenCheck ==
    /\ "testMutualExclusivity" \notin DOMAIN av
    /\ av' = av @@ [testMutualExclusivity |-> testMutualExclusivity(av.argc, av.argv)]
    /\ UNCHANGED <<k12vars, sigvars, fxvars, cdvars, fpvars, hm, votevars, ex, rc>>

\* test_mutual_exclusivity(argc, argv) up to line 33
AvFirstPass ==
    /\ "first_pass" \notin DOMAIN av
    /\ av' = av @@ [first_pass |-> first_pass(av.argc, av.argv, 1, FALSE, FALSE)]
    /\ UNCHANGED <<k12vars, sigvars, fxvars, cdvars, fpvars, hm, votevars, ex, rc>>

\* test_mutual_exclusivity(argc, argv) from line 33 on
AvSecondPass ==
    /\ "first_pass" \in DOMAIN av /\ "passed" \in DOMAIN av.first_pass
    /\ "test_mutual_exclusivity" \notin DOMAIN av
    /\ \E r \in second_pass(av.argc, av.argv) : av' = av @@ [test_mutual_exclusivity |-> r]
    /\ UNCHANGED <<k12vars, sigvars, fxvars, cdvars, fpvars, hm, votevars, ex, rc>>

AvNext ==
    \/ AvScanThenCheck
    \/ AvFirstPass
    \/ AvSecondPass

SpecArgs == AvInit /\ [][AvNext]_vars

----------------------------------------------------------------------------
(* SpecVote: the voting contract of smart-contract/main.cpp.  A C string is *)
(* the sequence of its characters before the terminating 0; the arrays      *)
(* votes, proposals and voters are kept up to the entry their counter has   *)
(* reached, the entries the code reads.                                     *)

MAX_VOTES == 1000
MAX_USER_ID_LENGTH == 32
MAX_COMMENT_LENGTH == 256
MAX_PROPOSALS == 10
VOTE_YES == 1
VOTE_NO == 2
VOTE_ABSTAIN == 3
ACTIVE == 1
CLOSED == 2
\* sizeof(proposal->title), sizeof(proposal->description)
TitleSize == 64
DescriptionSize == 256

\* the character at offset i of the string s, 0 at its end
CharAt(s, i) == IF i < Len(s) THEN s[i + 1] ELSE 0

RECURSIVE compareFrom(_, _, _)
compareFrom(str1, str2, i) ==
    IF CharAt(str1, i) # 0 /\ CharAt(str2, i) # 0
    THEN IF CharAt(str1, i) # CharAt(str2, i) THEN FALSE ELSE compareFrom(str1, str2, i + 1)
    ELSE CharAt(str1, i) = CharAt(str2, i)
compareStrings(str1, str2) == compareFrom(str1, str2, 0)

\* what dest holds after copyString(dest, src, maxLength)
RECURSIVE copyFrom(_, _, _, _)
copyFrom(dest, src, maxLength, i) ==
    IF i < maxLength - 1 /\ CharAt(src, i) # 0
    THEN copyFrom(Append(dest, CharAt(src, i)), src, maxLength, i + 1)
    ELSE dest
copyString(src, maxLength) == copyFrom(<<>>, src, maxLength, 0)

\* times are unsigned long long values, kept as words of eight bytes
getCurrentTime == W64(1000000)

\* a < b for two words
RECURSIVE ULessFrom(_, _, _)
ULessFrom(a, b, i) ==
    IF i = 0 THEN FALSE
    ELSE IF a[i] # b[i] THEN a[i] < b[i]
    ELSE ULessFrom(a, b, i - 1)
ULess(a, b) == ULessFrom(a, b, 8)

\* the global contractState, zero-initialised before main runs
ZeroContractState ==
    [totalVotes |-> 0, totalProposals |-> 0, totalRegisteredVoters |-> 0,
     contractCreationTime |-> W64(0), isActive |-> FALSE,
     votes |-> <<>>, proposals |-> <<>>, voters |-> <<>>]

initializeContract(cs) ==
    [totalVotes |-> 0, totalProposals |-> 0, totalRegisteredVoters |-> 0,
     contractCreationTime |-> getCurrentTime, isActive |-> TRUE,
     votes |-> <<>>, proposals |-> <<>>, voters |-> <<>>]

isValidProposal(cs, proposalId) == proposalId > 0 /\ proposalId <= cs.totalProposals

\* isProposalActive without the tests of isActive and status
isProposalActive_TimeOnly(cs, proposalId) ==
    IF ~isValidProposal(cs, proposalId) THEN FALSE
    ELSE LET proposal == cs.proposals[proposalId]
             currentTime == getCurrentTime
         IN /\ ~ULess(currentTime, proposal.startTime)
            /\ ~ULess(proposal.endTime, currentTime)

isProposalActive(cs, proposalId) ==
    IF ~isValidProposal(cs, proposalId) THEN FALSE
    ELSE LET proposal == cs.proposals[proposalId]
             currentTime == getCurrentTime
         IN /\ proposal.isActive
            /\ proposal.status = ACTIVE
            /\ ~ULess(currentTime, proposal.startTime)
            /\ ~ULess(proposal.endTime, currentTime)

isVoterRegistered(cs, userId) ==
    \E i \in 1..cs.totalRegisteredVoters :
        cs.voters[i].isRegistered /\ compareStrings(cs.voters[i].userId, userId)

\* hasVoterVoted without the comparison of the user ids of the votes that are valid
hasVoterVoted_InvalidOnly(cs, proposalId, userId) ==
    \E i \in 1..cs.totalVotes :
        /\ ~cs.votes[i].isValid
        /\ cs.votes[i].proposalId = proposalId
        /\ compareStrings(cs.votes[i].userId, userId)

hasVoterVoted(cs, proposalId, userId) ==
    \E i \in 1..cs.totalVotes :
        /\ cs.votes[i].isValid
        /\ cs.votes[i].proposalId = proposalId
        /\ compareStrings(cs.votes[i].userId, userId)

\* how many of the votes on the proposal the switch of line 122 counts for one choice
CountedVotes(cs, proposalId, choice) ==
    Cardinality({i \in 1..cs.totalVotes :
                    /\ cs.votes[i].isValid
                    /\ cs.votes[i].proposalId = proposalId
                    /\ cs.votes[i].choice = choice})

updateProposalVoteCounts(cs, proposalId) ==
    IF ~isValidProposal(cs, proposalId) THEN cs
    ELSE [cs EXCEPT !.proposals[proposalId].yesVotes = CountedVotes(cs, proposalId, VOTE_YES),
                    !.proposals[proposalId].noVotes = CountedVotes(cs, proposalId, VOTE_NO),
                    !.proposals[proposalId].abstainVotes = CountedVotes(cs, proposalId, VOTE_ABSTAIN)]

createProposal(cs, title, description, duration) ==
    IF cs.totalProposals >= MAX_PROPOSALS THEN [return |-> 0, state |-> cs]
    ELSE LET proposalId == cs.totalProposals + 1
             proposal == [id |-> proposalId,
                          title |-> copyString(title, TitleSize),
                          description |-> copyString(description, DescriptionSize),
                          startTime |-> getCurrentTime,
                          endTime |-> AddBytes(getCurrentTime, duration, 0, 1, <<>>).v,
                          yesVotes |-> 0, noVotes |-> 0, abstainVotes |-> 0,
                          status |-> ACTIVE, isActive |-> TRUE]
         IN [return |-> proposalId,
             state |-> [cs EXCEPT !.proposals = Append(@, proposal), !.totalProposals = @ + 1]]

\* registerVoter that counts the voter before it looks for the userId
registerVoter_CountFirst(cs, userId) ==
    IF cs.totalRegisteredVoters >= MAX_VOTES THEN [return |-> FALSE, state |-> cs]
    ELSE LET voter == [userId |-> copyString(userId, MAX_USER_ID_LENGTH), isRegistered |-> TRUE,
                       reputation |-> 100, registrationTime |-> getCurrentTime]
             counted == [cs EXCEPT !.totalRegisteredVoters = @ + 1]
         IN IF isVoterRegistered(cs, userId) THEN [return |-> FALSE, state |-> counted]
            ELSE [return |-> TRUE, state |-> [counted EXCEPT !.voters = Append(@, voter)]]

registerVoter(cs, userId) ==
    IF cs.totalRegisteredVoters >= MAX_VOTES THEN [return |-> FALSE, state |-> cs]
    ELSE IF isVoterRegistered(cs, userId) THEN [return |-> FALSE, state |-> cs]
    ELSE LET voter == [userId |-> copyString(userId, MAX_USER_ID_LENGTH), isRegistered |-> TRUE,
                       reputation |-> 100, registrationTime |-> getCurrentTime]
         IN [return |-> TRUE,
             state |-> [cs EXCEPT !.voters = Append(@, voter), !.totalRegisteredVoters = @ + 1]]

castVote(cs, proposalId, userId, choice, comment) ==
    IF ~isValidProposal(cs, proposalId) THEN [return |-> FALSE, state |-> cs]
    ELSE IF ~isProposalActive(cs, proposalId) THEN [return |-> FALSE, state |-> cs]
    ELSE IF ~isVoterRegistered(cs, userId) THEN [return |-> FALSE, state |-> cs]
    ELSE IF hasVoterVoted(cs, proposalId, userId) THEN [return |-> FALSE, state |-> cs]
    ELSE IF cs.totalVotes >= MAX_VOTES THEN [return |-> FALSE, state |-> cs]
    ELSE LET vote == [proposalId |-> proposalId,
                      userId |-> copyString(userId, MAX_USER_ID_LENGTH),
                      choice |-> choice,
                      comment |-> copyString(comment, MAX_COMMENT_LENGTH),
                      timestamp |-> getCurrentTime, voteWeight |-> 1, isValid |-> TRUE]
             recorded == [cs EXCEPT !.votes = Append(@, vote), !.totalVotes = @ + 1]
         IN [return |-> TRUE, state |-> updateProposalVoteCounts(recorded, proposalId)]

closeProposal(cs, proposalId) ==
    IF ~isValidProposal(cs, proposalId) THEN [return |-> FALSE, state |-> cs]
    ELSE [return |-> TRUE,
          state |-> [cs EXCEPT !.proposals[proposalId].status = CLOSED,
                               !.proposals[proposalId].isActive = FALSE]]

getVoteCount(cs, proposalId) ==
    IF ~isValidProposal(cs, proposalId) THEN 0
    ELSE LET proposal == cs.proposals[proposalId]
         IN proposal.yesVotes + proposal.noVotes + proposal.abstainVotes

getProposalResults(cs, proposalId) ==
    IF ~isValidProposal(cs, proposalId)
    THEN [yesCount |-> 0, noCount |-> 0, abstainCount |-> 0, return |-> 0]
    ELSE LET proposal == cs.proposals[proposalId]
         IN [yesCount |-> proposal.yesVotes, noCount |-> proposal.noVotes,
             abstainCount |-> proposal.abstainVotes,
             return |-> proposal.yesVotes + proposal.noVotes + proposal.abstainVotes]

\* how far a run fills the arrays
MaxProposals == 1
MaxVoters == 2
MaxVotes == 2
\* a VoteChoice is an unsigned char: the three enumerators, the value below them and to
\* MaxChoice above
MaxChoice == 3
Choices == 0..MaxChoice
ProposalIds == 0..MaxProposals

\* user ids: "alice", and ids of n times the letter a around the size of the userId arrays
alice == <<97, 108, 105, 99, 101>>
LongId(n) == [i \in 1..n |-> 97]
UserIds == {alice, LongId(MAX_USER_ID_LENGTH - 1), LongId(MAX_USER_ID_LENGTH)}
Titles == {<<84>>}
Comments == {<<>>}
\* one day, and a duration with which startTime + duration wraps
Durations == {W64(86400), [i \in 1..8 |-> 255]}

\* calls: the call made last with what it returned and, for the calls since
\* initializeContract, the votes castVote accepted (how many for each proposal and choice,
\* and by whom), the user ids registerVoter accepted and the proposals closeProposal closed
NoCalls ==
    [last |-> [op |-> "none"],
     accepted |-> [k \in (1..MAX_PROPOSALS) \X Choices |-> 0],
     voted |-> {}, registered |-> {}, closed |-> {}]

VoteInit ==
    /\ contractState = ZeroContractState
    /\ calls = NoCalls
    /\ K12Idle /\ SigIdle /\ FxIdle /\ CdIdle /\ FpIdle /\ HmIdle /\ AvIdle /\ ExIdle /\ RcIdle

InitializeContract ==
    /\ contractState' = initializeContract(contractState)
    /\ calls' = [NoCalls EXCEPT !.last = [op |-> "initializeContract"]]
    /\ UNCHANGED <<k12vars, sigvars, fxvars, cdvars, fpvars, hm, av, ex, rc>>

CreateProposal ==
    /\ \E title \in Titles, description \in Titles, duration \in Durations :
       \E r \in {createProposal(contractState, title, description, duration)} :
          /\ r.return = 0 \/ r.state.totalProposals <= MaxProposals
          /\ contractState' = r.state
          /\ calls' = [calls EXCEPT !.last = [op |-> "createProposal", return |-> r.return]]
    /\ UNCHANGED <<k12vars, sigvars, fxvars, cdvars, fpvars, hm, av, ex, rc>>

RegisterVoter ==
    /\ \E userId \in UserIds :
       \E r \in {registerVoter(contractState, userId)} :
          /\ r.state.totalRegisteredVoters <= MaxVoters
          /\ contractState' = r.state
          /\ calls' = [calls EXCEPT
                          !.last = [op |-> "registerVoter", userId |-> userId, return |-> r.return,
                                    before |-> userId \in calls.registered],
                          !.registered = IF r.return THEN @ \cup {userId} ELSE @]
    /\ UNCHANGED <<k12vars, sigvars, fxvars, cdvars, fpvars, hm, av, ex, rc>>

CastVote ==
    /\ \E proposalId \in ProposalIds, userId \in UserIds, choice \in Choices, comment \in Comments :
       \E r \in {castVote(contractState, proposalId, userId, choice, comment)} :
          /\ r.state.totalVotes <= MaxVotes
          /\ contractState' = r.state
          /\ calls' = [calls EXCEPT
                          !.last = [op |-> "castVote", proposalId |-> proposalId, userId |-> userId,
                                    choice |-> choice, return |-> r.return,
                                    before |-> <<proposalId, userId>> \in calls.voted],
                          !.voted = IF r.return THEN @ \cup {<<proposalId, userId>>} ELSE @,
                          !.accepted = IF r.return
                                       THEN [@ EXCEPT ![<<proposalId, choice>>] = @ + 1]
                                       ELSE @]
    /\ UNCHANGED <<k12vars, sigvars, fxvars, cdvars, fpvars, hm, av, ex, rc>>

CloseProposal ==
    /\ \E proposalId \in ProposalIds :
       \E r \in {closeProposal(contractState, proposalId)} :
          /\ contractState' = r.state
          /\ calls' = [calls EXCEPT
                          !.last = [op |-> "closeProposal", proposalId |-> proposalId,
                                    return |-> r.return],
                          !.closed = IF r.return THEN @ \cup {proposalId} ELSE @]
    /\ UNCHANGED <<k12vars, sigvars, fxvars, cdvars, fpvars, hm, av, ex, rc>>

VoteNext ==
    \/ InitializeContract
    \/ CreateProposal
    \/ RegisterVoter
    \/ CastVote
    \/ CloseProposal

SpecVote == VoteInit /\ [][VoteNext]_vars

----------------------------------------------------------------------------
(* SpecVoteFull: the voting contract from the state in which the proposals  *)
(* array is full, after initializeContract and MAX_PROPOSALS calls of       *)
(* createProposal.                                                          *)

RECURSIVE Created(_)
Created(n) ==
    IF n = 0 THEN initializeContract(ZeroContractState)
    ELSE createProposal(Created(n - 1), <<84>>, <<84>>, W64(86400)).state

VoteFullInit ==
    /\ contractState = Created(MAX_PROPOSALS)
    /\ calls = [NoCalls EXCEPT !.last = [op |-> "createProposal", return |-> MAX_PROPOSALS]]
    /\ K12Idle /\ SigIdle /\ FxIdle /\ CdIdle /\ FpIdle /\ HmIdle /\ AvIdle /\ ExIdle /\ RcIdle

VoteFullNext ==
    \/ CreateProposal
    \/ RegisterVoter
    \/ CastVote
    \/ CloseProposal

SpecVoteFull == VoteFullInit /\ [][VoteFullNext]_vars

----------------------------------------------------------------------------
(* SpecExec: one call of executeRealQubicTransaction, made directly or by   *)
(* executeRealContractDeployment, step by step.  Strings are sequences of   *)
(* characters; a bytecode file is whether it can be opened and how many     *)
(* bytes it holds.                                                          *)

EXECUTION_CONTRACT_CALL == 1
EXECUTION_CONTRACT_DEPLOY == 2
EXECUTION_TRANSFER == 3
TX_STATUS_PENDING == 0
TX_STATUS_CONFIRMED == 1
TX_STATUS_FAILED == 2
TX_STATUS_NOT_FOUND == 3
\* sizeof(tx.data) and sizeof(ContractCallData)
TxDataSize == 4096
ContractCallDataSize == 64 + 512
deployment_timeoutSeconds == 120

testnet == <<116, 101, 115, 116, 110, 101, 116>>
mainnet == <<109, 97, 105, 110, 110, 101, 116>>
localhost == <<49, 50, 55, 46, 48, 46, 48, 46, 49>>
strlen(s) == Len(s)
\* strncpy(dest, src, n) into a buffer of zeros
strncpy(src, n) == SubSeq(src, 1, IF Len(src) < n THEN Len(src) ELSE n)

validateExecutionParams(params) ==
    IF ~strcmp_equal(params.network, testnet) /\ ~strcmp_equal(params.network, mainnet) THEN FALSE
    ELSE IF strlen(params.nodeIp) = 0 THEN FALSE
    ELSE IF params.nodePort <= 0 \/ params.nodePort > 65535 THEN FALSE
    ELSE IF strlen(params.privateKey) = 0 THEN FALSE
    ELSE IF params.executionType = EXECUTION_CONTRACT_CALL /\ strlen(params.contractAddress) # 60 THEN FALSE
    ELSE TRUE

connectToQubicNetwork(nodeIp, nodePort) == TRUE
deriveAddressFromPrivateKey(privateKey) == TRUE
encodeContractArguments(args) == TRUE
convertPrivateKeyToBytes(privateKey) == TRUE
createTransactionHash(tx) == TRUE
signHash(tx) == TRUE
serializeTransaction(tx) == TRUE

\* readBytecodeFromFile: [return, bytecode], the bytecode being its size
readBytecodeFromFile(file) ==
    IF ~file.is_open THEN [return |-> FALSE, bytecode |-> 0]
    ELSE [return |-> TRUE, bytecode |-> file.size]

validateBytecode(bytecode) == bytecode # 0 /\ bytecode < 1024 * 1024

\* [return, tx]
prepareContractCallData(params, tx) ==
    IF ~encodeContractArguments(params.functionArgs) THEN [return |-> FALSE, tx |-> tx]
    ELSE [return |-> TRUE, tx |-> [tx EXCEPT !.dataSize = ContractCallDataSize]]

\* [return, tx]
prepareContractDeployData(params, tx) ==
    LET read == readBytecodeFromFile(params.bytecodeFile)
    IN IF ~read.return THEN [return |-> FALSE, tx |-> tx]
       ELSE IF ~validateBytecode(read.bytecode) THEN [return |-> FALSE, tx |-> tx]
       ELSE IF read.bytecode > TxDataSize THEN [return |-> FALSE, tx |-> tx]
       ELSE [return |-> TRUE, tx |-> [tx EXCEPT !.dataSize = read.bytecode]]

\* prepareTransaction: [return, tx, data], data being the calls it made to prepare the
\* transaction data, each with the value returned
prepareTransaction(params) ==
    LET tx == [type |-> params.executionType,
               destinationAddress |->
                   IF params.executionType = EXECUTION_CONTRACT_CALL
                   THEN strncpy(params.contractAddress, 64 - 1)
                   ELSE strncpy(params.destinationAddress, 64 - 1),
               amount |-> params.amount, dataSize |-> 0, signed |-> FALSE]
    IN IF ~deriveAddressFromPrivateKey(params.privateKey)
       THEN [return |-> FALSE, tx |-> tx, data |-> <<>>]
       ELSE IF params.executionType = EXECUTION_CONTRACT_CALL
       THEN LET d == prepareContractCallData(params, tx)
            IN [return |-> TRUE, tx |-> d.tx, data |-> <<<<"prepareContractCallData", d.return>>>>]
       ELSE IF params.executionType = EXECUTION_CONTRACT_DEPLOY
       THEN LET d == prepareContractDeployData(params, tx)
            IN [return |-> TRUE, tx |-> d.tx, data |-> <<<<"prepareContractDeployData", d.return>>>>]
       ELSE [return |-> TRUE, tx |-> tx, data |-> <<>>]

\* [return, tx]
signTransaction(tx, privateKey) ==
    IF ~convertPrivateKeyToBytes(privateKey) THEN [return |-> FALSE, tx |-> tx]
    ELSE IF ~createTransactionHash(tx) THEN [return |-> FALSE, tx |-> tx]
    ELSE IF ~signHash(tx) THEN [return |-> FALSE, tx |-> tx]
    ELSE [return |-> TRUE, tx |-> [tx EXCEPT !.signed = TRUE]]

broadcastTransaction(tx) == IF ~serializeTransaction(tx) THEN FALSE ELSE TRUE

\* getTransactionStatus: [status, checkCount], checkCount being the static counter
getTransactionStatus(checkCount) ==
    LET counted == checkCount + 1
    IN [status |-> IF counted < 3 THEN TX_STATUS_PENDING
                   ELSE IF counted < 10 THEN TX_STATUS_CONFIRMED
                   ELSE TX_STATUS_NOT_FOUND,
        checkCount |-> counted]

\* the loop condition of waitForConfirmation that admits one more iteration
waitForConfirmation_while_Inclusive(waited, timeoutSeconds) == waited <= timeoutSeconds

\* the loop condition of waitForConfirmation
waitForConfirmation_while(waited, timeoutSeconds) == waited < timeoutSeconds

\* the switch of waitForConfirmation: [return |-> the value returned] or [break |-> TRUE]
waitForConfirmation_switch(status) ==
    CASE status = TX_STATUS_CONFIRMED -> [return |-> TRUE]
      [] status = TX_STATUS_FAILED -> [return |-> FALSE]
      [] status = TX_STATUS_PENDING -> [break |-> TRUE]
      [] status = TX_STATUS_NOT_FOUND -> [return |-> FALSE]
      [] OTHER -> [break |-> TRUE]

\* executeRealQubicTransaction that goes on after validateExecutionParams whatever it returns
executeRealQubicTransaction_next_Unvalidated(at, ok) ==
    CASE at = "validate" -> "connect"
      [] at = "connect" -> IF ok THEN "prepare" ELSE "return"
      [] at = "prepare" -> IF ok THEN "sign" ELSE "return"
      [] at = "sign" -> IF ok THEN "broadcast" ELSE "return"
      [] at = "broadcast" -> IF ok THEN "wait" ELSE "return"
      [] at = "wait" -> "return"

\* the control flow of executeRealQubicTransaction: the place that follows the step at,
\* ok being the value the step returned
executeRealQubicTransaction_next(at, ok) ==
    CASE at = "validate" -> IF ok THEN "connect" ELSE "return"
      [] at = "connect" -> IF ok THEN "prepare" ELSE "return"
      [] at = "prepare" -> IF ok THEN "sign" ELSE "return"
      [] at = "sign" -> IF ok THEN "broadcast" ELSE "return"
      [] at = "broadcast" -> IF ok THEN "wait" ELSE "return"
      [] at = "wait" -> "return"

\* the timeouts of a direct call are -1..MaxTimeout
MaxTimeout == 3
\* what the static counter of getTransactionStatus holds when the call is made: around the
\* two values it is compared with, 3 and 10
CheckCounts == {0, 1, 2, 8, 9, 10}
BytecodeFiles ==
    {[is_open |-> FALSE, size |-> 0]} \cup
    {[is_open |-> TRUE, size |-> n] : n \in {0, 1, TxDataSize, TxDataSize + 1, 1024 * 1024}}
PrivateKeys == {<<>>, <<107, 101, 121>>}
Networks == {testnet, <<100, 101, 118>>}

ExecutionParamsSet ==
    {[executionType |-> t, network |-> network, nodeIp |-> ip, nodePort |-> port,
      privateKey |-> key, contractAddress |-> address, functionArgs |-> <<>>,
      bytecodeFile |-> file, destinationAddress |-> LongId(60), amount |-> 0,
      timeoutSeconds |-> timeout] :
        t \in {EXECUTION_CONTRACT_CALL, EXECUTION_CONTRACT_DEPLOY, EXECUTION_TRANSFER},
        network \in Networks, ip \in {<<>>, localhost}, port \in {0, 21841, 65536},
        key \in PrivateKeys, address \in {LongId(59), LongId(60)},
        file \in BytecodeFiles, timeout \in -1..MaxTimeout}

\* the run of executeRealQubicTransaction(params) from its first step
Entered(e, params) ==
    [params |-> params, at |-> "validate", steps |-> <<>>, data |-> <<>>, polls |-> <<>>,
     waited |-> 0] @@ e

ExInit ==
    /\ \E checkCount \in CheckCounts :
          \/ \E params \in ExecutionParamsSet :
                /\ params.executionType # EXECUTION_CONTRACT_DEPLOY
                   => params.bytecodeFile = [is_open |-> FALSE, size |-> 0]
                /\ ex = Entered([entry |-> "executeRealQubicTransaction", checkCount |-> checkCount],
                                params)
          \/ \E file \in BytecodeFiles, key \in PrivateKeys, network \in Networks :
                ex = [entry |-> "executeRealContractDeployment", checkCount |-> checkCount,
                      bytecodeFile |-> file, privateKey |-> key, network |-> network, at |-> "entry"]
    /\ K12Idle /\ SigIdle /\ FxIdle /\ CdIdle /\ FpIdle /\ HmIdle /\ AvIdle /\ VoteIdle /\ RcIdle

\* the step that a call has taken, and where the function goes from it
Stepped(e, step, ok) ==
    LET next == executeRealQubicTransaction_next(step, ok)
        stepped == [e EXCEPT !.steps = Append(@, <<step, ok>>)]
    IN IF next = "return"
       THEN [stepped EXCEPT !.at = IF e.entry = "executeRealQubicTransaction" THEN "done" ELSE "executed"]
            @@ [return |-> step = "wait" /\ ok]
       ELSE [stepped EXCEPT !.at = next]

\* executeRealContractDeployment up to its call of executeRealQubicTransaction
ExDeployment ==
    /\ ex.at = "entry"
    /\ ex' = Entered(ex,
                [executionType |-> EXECUTION_CONTRACT_DEPLOY, network |-> strncpy(ex.network, 16 - 1),
                 nodeIp |-> localhost, nodePort |-> 21841, privateKey |-> strncpy(ex.privateKey, 128 - 1),
                 contractAddress |-> <<>>, functionArgs |-> <<>>, bytecodeFile |-> ex.bytecodeFile,
                 destinationAddress |-> <<>>, amount |-> 0,
                 timeoutSeconds |-> deployment_timeoutSeconds])
    /\ UNCHANGED <<k12vars, sigvars, fxvars, cdvars, fpvars, hm, av, votevars, rc>>

ExValidate ==
    /\ ex.at = "validate"
    /\ ex' = Stepped(ex, "validate", validateExecutionParams(ex.params))
    /\ UNCHANGED <<k12vars, sigvars, fxvars, cdvars, fpvars, hm, av, votevars, rc>>

ExConnect ==
    /\ ex.at = "connect"
    /\ ex' = Stepped(ex, "connect", connectToQubicNetwork(ex.params.nodeIp, ex.params.nodePort))
    /\ UNCHANGED <<k12vars, sigvars, fxvars, cdvars, fpvars, hm, av, votevars, rc>>

ExPrepare ==
    /\ ex.at = "prepare"
    /\ \E r \in {prepareTransaction(ex.params)} :
          ex' = [Stepped(ex, "prepare", r.return) EXCEPT !.data = r.data] @@ [tx |-> r.tx]
    /\ UNCHANGED <<k12vars, sigvars, fxvars, cdvars, fpvars, hm, av, votevars, rc>>

ExSign ==
    /\ ex.at = "sign"
    /\ \E r \in {signTransaction(ex.tx, ex.params.privateKey)} :
          ex' = [Stepped(ex, "sign", r.return) EXCEPT !.tx = r.tx]
    /\ UNCHANGED <<k12vars, sigvars, fxvars, cdvars, fpvars, hm, av, votevars, rc>>

ExBroadcast ==
    /\ ex.at = "broadcast"
    /\ ex' = Stepped(ex, "broadcast", broadcastTransaction(ex.tx))
    /\ UNCHANGED <<k12vars, sigvars, fxvars, cdvars, fpvars, hm, av, votevars, rc>>

\* waitForConfirmation: one iteration of its loop
ExPoll ==
    /\ ex.at = "wait"
    /\ waitForConfirmation_while(ex.waited, ex.params.timeoutSeconds)
    /\ \E s \in {getTransactionStatus(ex.checkCount)} :
          LET polled == [ex EXCEPT !.checkCount = s.checkCount, !.polls = Append(@, s.status)]
              r == waitForConfirmation_switch(s.status)
          IN ex' = IF "return" \in DOMAIN r THEN Stepped(polled, "wait", r.return)
                   ELSE [polled EXCEPT !.waited = @ + 1]
    /\ UNCHANGED <<k12vars, sigvars, fxvars, cdvars, fpvars, hm, av, votevars, rc>>

\* waitForConfirmation: the loop has ended
ExTimeout ==
    /\ ex.at = "wait"
    /\ ~waitForConfirmation_while(ex.waited, ex.params.timeoutSeconds)
    /\ ex' = Stepped(ex, "wait", FALSE)
    /\ UNCHANGED <<k12vars, sigvars, fxvars, cdvars, fpvars, hm, av, votevars, rc>>

\* executeRealContractDeployment after its call of executeRealQubicTransaction
ExDeployed ==
    /\ ex.at = "executed"
    /\ ex' = [ex EXCEPT !.at = "done"] @@ [executeRealContractDeployment |-> ex.return]
    /\ UNCHANGED <<k12vars, sigvars, fxvars, cdvars, fpvars, hm, av, votevars, rc>>

ExNext ==
    \/ ExDeployment
    \/ ExValidate
    \/ ExConnect
    \/ ExPrepare
    \/ ExSign
    \/ ExBroadcast
    \/ ExPoll
    \/ ExTimeout
    \/ ExDeployed

SpecExec == ExInit /\ [][ExNext]_vars

\* the program is one thread that runs each statement it reaches
SpecExecFair == ExInit /\ [][ExNext]_vars /\ WF_vars(ExNext)

----------------------------------------------------------------------------
(* SpecRecode: one call of wNAF_recode or of decompose.                     *)

\* the low and the high byte of a scalar of wNAF_recode are 0..MaxRecodeByte or around the
\* values where a digit of window 8 changes sign or the scalar wraps
MaxRecodeByte == 2
RecodeBytes == 0..MaxRecodeByte \cup {127, 128, 129, 254, 255}
\* the six bytes between them: all zeros, all ones, or alternating bits
RecodeFills == {0, 255, 170, 85}
RecodeScalars ==
    {<<lo, fill, fill, fill, fill, fill, fill, hi>> :
        lo \in RecodeBytes, fill \in RecodeFills, hi \in RecodeBytes}

\* each 64-bit word of a scalar of decompose is 0..MaxDecomposeWord, 2^63 - 1 or 2^64 - 1
MaxDecomposeWord == 1
DecomposeWords == {W64(n) : n \in 0..MaxDecomposeWord} \cup {MASK63, ALLONES}
DecomposeScalars ==
    {<<k0, k1, k2, k3>> : k0 \in DecomposeWords, k1 \in DecomposeWords,
                          k2 \in DecomposeWords, k3 \in DecomposeWords}

RcInit ==
    /\ \/ \E scalar \in RecodeScalars, w \in {4, 8} :
             rc = [call |-> "wNAF_recode", scalar |-> scalar, w |-> w]
       \/ \E k \in DecomposeScalars : rc = [call |-> "decompose", k |-> k]
    /\ K12Idle /\ SigIdle /\ FxIdle /\ CdIdle /\ FpIdle /\ HmIdle /\ AvIdle /\ VoteIdle /\ ExIdle

RcRecode ==
    /\ rc.call = "wNAF_recode" /\ "digits" \notin DOMAIN rc
    /\ \E r \in {Call("wNAF_recode", <<rc.scalar, rc.w>>)} :
          rc' = rc @@ [digits |-> r.digits, overrun |-> r.overrun]
    /\ UNCHANGED <<k12vars, sigvars, fxvars, cdvars, fpvars, hm, av, votevars, ex>>

RcDecompose ==
    /\ rc.call = "decompose" /\ "scalars" \notin DOMAIN rc
    /\ \E r \in {Call("decompose", <<rc.k>>)} : rc' = rc @@ [scalars |-> r]
    /\ UNCHANGED <<k12vars, sigvars, fxvars, cdvars, fpvars, hm, av, votevars, ex>>

RcNext == RcRecode \/ RcDecompose

SpecRecode == RcInit /\ [][RcNext]_vars

----------------------------------------------------------------------------
(* The sponge construction, for reference: Keccak-p[1600, 12] with rate 168 *)

\* block j (from 1) of the message P padded with zeros to nb blocks, 0x80 xored into
\* the last byte of the last block
RefBlock(P, j, nb) ==
    Tup([i \in 1..K12_rateInBytes |->
            LET k == K12_rateInBytes * (j - 1) + i
                b == IF k <= Len(P) THEN P[k] ELSE 0
            IN IF j = nb /\ i = K12_rateInBytes THEN Xor8(b, 128) ELSE b], K12_rateInBytes)

RECURSIVE RefAbsorbBlocks(_, _, _, _)
RefAbsorbBlocks(st, P, j, nb) ==
    IF j > nb THEN st
    ELSE LET next == KeccakP1600_Permute_12rounds(
                         XorBytes(SubSeq(st, 1, K12_rateInBytes), RefBlock(P, j, nb))
                         \o SubSeq(st, K12_rateInBytes + 1, 200))
         IN Then(next, RefAbsorbBlocks(next, P, j + 1, nb))

\* the state of the sponge that has absorbed data followed by the suffix byte and the padding
RefSponge(data, suffix) ==
    RefAbsorbBlocks(Zeros(200), data \o <<suffix>>, 1, (Len(data) + K12_rateInBytes) \div K12_rateInBytes)

\* n bytes squeezed from the sponge in state st: rate bytes, then a permutation, and so on
RECURSIVE RefSqueeze(_, _)
RefSqueeze(st, n) ==
    IF n <= K12_rateInBytes THEN SubSeq(st, 1, n)
    ELSE SubSeq(st, 1, K12_rateInBytes) \o RefSqueeze(KeccakP1600_Permute_12rounds(st), n - K12_rateInBytes)

RECURSIVE Flatten(_)
Flatten(ss) == IF ss = <<>> THEN <<>> ELSE Head(ss) \o Flatten(Tail(ss))

Min(a, b) == IF a < b THEN a ELSE b

----------------------------------------------------------------------------
(* Claims on KangarooTwelve *)

\* C6 (as amended): for every input of 0 <= L <= 8191 bytes KangarooTwelve hashes
\* the input (followed by the zero byte of the empty customization) directly in the
\* final node with suffix 0x07: no leaf is hashed, no leaf count is absorbed and
\* the suffixes 0x03/0x06 are not used.  An input of exactly 8192 bytes takes the
\* tree path: suffix 0x03, one leaf (holding the zero byte), leaf count 1, suffix 0x06.
C6_ShortInputHashedDirectly ==
    k12pc = "squeeze" =>
        /\ Len(k12c.input) < K12_chunkSize =>
              /\ k12c.suffixes = <<7>>
              /\ k12c.cvs = <<>>
              /\ k12c.encbuf = <<>>
              /\ k12c.finalNode.state = RefSponge(k12c.input \o <<0>>, 7)
        /\ Len(k12c.input) = K12_chunkSize =>
              /\ k12c.suffixes = <<3, 11, 6>>
              /\ Len(k12c.cvs) = 1
              /\ k12c.encbuf = <<1, 1, 255, 255>>

C6_Witness ==
    /\ k12pc = "squeeze"
    /\ Len(k12c.input) = K12_chunkSize - 1
    /\ k12c.suffixes = <<7>>

\* C6 as stated: every input of 0 <= L <= 8192 bytes is hashed directly with suffix
\* 0x07, without leaf, leaf count or the suffixes 0x03/0x06.
C6_AsStated ==
    (k12pc = "squeeze" /\ Len(k12c.input) <= K12_chunkSize) =>
        /\ k12c.suffixes = <<7>>
        /\ k12c.cvs = <<>>
        /\ k12c.encbuf = <<>>

\* C7: on the tree path each leaf is hashed from the all-zero state with suffix 0x0B
\* and padding 0x80, 32 bytes of each leaf digest are absorbed into the final node
\* in input order, and the leaf count encoded (big-endian value, its byte length,
\* 0xFF 0xFF) before the suffix 0x06 is the number of leaf digests absorbed,
\* floor(L / 8192).
C7_TreePath ==
    (k12pc = "squeeze" /\ k12c.suffixes[1] = 3) =>
        LET L == Len(k12c.input)
            S == k12c.input \o <<0>>
            n == L \div 8192
        IN /\ Len(k12c.cvs) = n
           /\ \A i \in 1..n :
                 k12c.cvs[i] = SubSeq(RefSponge(SubSeq(S, 8192 * i + 1, Min(8192 * (i + 1), L + 1)), 11), 1, 32)
           /\ k12c.suffixes = <<3>> \o [i \in 1..n |-> 11] \o <<6>>
           /\ k12c.encbuf = <<n, 1, 255, 255>>
           /\ k12c.finalNode.state =
                 RefSponge(SubSeq(S, 1, 8192) \o <<3, 0, 0, 0, 0, 0, 0, 0>> \o Flatten(k12c.cvs) \o k12c.encbuf, 6)

C7_Witness ==
    /\ k12pc = "squeeze"
    /\ Len(k12c.input) = 2 * K12_chunkSize
    /\ Len(k12c.cvs) = 2
    /\ k12c.suffixes = <<3, 11, 11, 6>>

\* C8: for every outputByteLen the bytes KangarooTwelve returns are squeezed sponge
\* output: none of them is read from the capacity part of the state (offsets
\* 168..199) or from beyond the 200 bytes of the state.
C8_OutputIsSqueezed ==
    k12pc = "done" =>
        /\ k12c.outputByteLen <= K12_rateInBytes
        /\ k12output = RefSqueeze(k12c.finalNode.state, k12c.outputByteLen)

----------------------------------------------------------------------------
(* Properties of sign and verify *)

\* Reference arithmetic modulo the order, on numbers written as little-endian byte
\* sequences: one bit at a time, by doubling, adding and subtracting the order.
RefOrder == BytesOf(curve_order)

\* x < y, for sequences of the same length
RefLess(x, y) ==
    LET D == {i \in 1..Len(x) : x[i] # y[i]}
    IN D # {} /\ LET m == CHOOSE i \in D : \A j \in D : j <= i IN x[m] < y[m]

RefAdd(x, y) == AddBytes(x, y, 0, 1, <<>>).v
RefSub(x, y) == SubBytes(x, y, 0, 1, <<>>).v
\* x mod order for x below twice the order
RefReduce(x) == IF RefLess(x, RefOrder) THEN x ELSE RefSub(x, RefOrder)

\* (acc * 2^(hi - lo + 1) + bits hi..lo of x) mod order
RECURSIVE RefModBits(_, _, _, _)
RefModBits(x, hi, lo, acc) ==
    IF hi = lo THEN RefReduce(AddBytes(acc, acc, BitOf(x, hi), 1, <<>>).v)
    ELSE LET mid == (hi + lo + 1) \div 2
             a == RefModBits(x, hi, mid, acc)
         IN Then(a, RefModBits(x, mid - 1, lo, a))
RefMod(x) == RefModBits(x, 8 * Len(x) - 1, 0, Zeros(Len(x)))

\* (acc * 2^(hi - lo + 1) + a * bits hi..lo of b) mod order
RECURSIVE RefMulBits(_, _, _, _, _)
RefMulBits(a, b, hi, lo, acc) ==
    IF hi = lo
    THEN LET d == RefReduce(RefAdd(acc, acc))
         IN IF BitOf(b, hi) = 1 THEN RefReduce(RefAdd(d, a)) ELSE d
    ELSE LET mid == (hi + lo + 1) \div 2
             p == RefMulBits(a, b, hi, mid, acc)
         IN Then(p, RefMulBits(a, b, mid - 1, lo, p))
RefMulMod(a, b) == RefMulBits(a, b, 8 * Len(b) - 1, 0, Zeros(Len(a)))

\* r mod order and (h mod order) * (a mod order) mod order for the nonce scalar r, the
\* challenge h and the private scalar a that signWithNonceK reads
RefTerms(s) ==
    [r |-> RefMod(BytesOf(SubSeq(s.r, 1, 4))),
     ha |-> RefMulMod(RefMod(BytesOf(SubSeq(s.h, 1, 4))), RefMod(SubSeq(s.k, 1, 32)))]
\* the representative in [0, order) of r - h * a
RefResponse(t) == IF RefLess(t.r, t.ha) THEN RefSub(RefAdd(t.r, RefOrder), t.ha) ELSE RefSub(t.r, t.ha)

\* C1: when verify is given the public key derived from the subseed, the digest that was
\* signed and the signature sign wrote, it returns true.
C1_HonestSignatureVerifies ==
    (sigpc = "done" /\ vfy.publicKey = sig.publicKey /\ vfy.messageDigest = sig.messageDigest
     /\ vfy.signature = sig.signature) => vfy.return

C1_Witness ==
    /\ sigpc = "done" /\ vfy.tamper = "none" /\ vfy.return
    /\ vfy.publicKey = sig.publicKey /\ vfy.signature = sig.signature
    /\ vfy.calls = <<"decode", "KangarooTwelve", "ecc_mul_double", "encode">>

\* C2: whenever verify returns true, the response signature[32..63] is below the order.
C2_AcceptedResponseBelowOrder ==
    (sigpc = "done" /\ vfy.return) => RefLess(SubSeq(vfy.signature, 33, 64), RefOrder)

\* the reserved bits the gate is about, read bit by bit
GateBits(publicKey, signature) ==
    \/ BitOf(publicKey, 8 * 15 + 7) = 1
    \/ BitOf(signature, 8 * 15 + 7) = 1
    \/ BitOf(signature, 8 * 62 + 6) = 1
    \/ BitOf(signature, 8 * 62 + 7) = 1
    \/ \E b \in 0..7 : BitOf(signature, 8 * 63 + b) = 1

\* C3: when one of the reserved bits of the public key or of the signature is set, verify
\* returns false without having called decode, KangarooTwelve or ecc_mul_double.
C3_GateRejectsBeforeAnyCall ==
    (sigpc \notin {"idle", "start", "keyed", "expanded", "nonce", "committed", "challenged", "signed", "gate"}
     /\ GateBits(vfy.publicKey, vfy.signature))
    => (sigpc = "done" /\ ~vfy.return /\ vfy.calls = <<>>)

C3_Witness ==
    /\ sigpc = "done" /\ vfy.tamper = "signature[62] |= 0x40"
    /\ BitOf(vfy.signature, 8 * 62 + 6) = 1 /\ BitOf(sig.signature, 8 * 62 + 6) = 0
    /\ ~vfy.return /\ vfy.calls = <<>>

\* C4: verify returns true only when decode and ecc_mul_double returned true and the
\* encoding of the computed point equals signature[0..31]; once decode or ecc_mul_double
\* has returned false, verify has returned false and that call is the last it made.
C4_FailsClosed ==
    /\ (sigpc = "done" /\ vfy.return)
       => /\ vfy.calls = <<"decode", "KangarooTwelve", "ecc_mul_double", "encode">>
          /\ vfy.decoded /\ vfy.multiplied
          /\ \A i \in 1..32 : vfy.encoded[i] = vfy.signature[i]
    /\ (sigpc \notin {"idle", "start"} /\ "decoded" \in DOMAIN vfy /\ ~vfy.decoded)
       => (sigpc = "done" /\ ~vfy.return /\ vfy.calls = <<"decode">>)
    /\ (sigpc \notin {"idle", "start"} /\ "multiplied" \in DOMAIN vfy /\ ~vfy.multiplied)
       => (sigpc = "done" /\ ~vfy.return /\ vfy.calls = <<"decode", "KangarooTwelve", "ecc_mul_double">>)

C4_Witness ==
    /\ sigpc = "done" /\ "decoded" \in DOMAIN vfy /\ ~vfy.decoded
    /\ ~vfy.return /\ vfy.calls = <<"decode">>

\* C12: when the loop of ecc_mul_double starts in verify, the two scalars it was given, the
\* response signature[32..63] and the challenge h[0..3], are below the order.
C12_ScalarsReducedBeforeMultiplication ==
    (sigpc = "loop" /\ vfy.i = 64)
    => /\ RefLess(SubSeq(vfy.signature, 33, 64), RefOrder)
       /\ RefLess(BytesOf(SubSeq(vfy.h, 1, 4)), RefOrder)

\* C13: a later call of sign with the same subseed, public key and digest writes the
\* signature the call before it wrote.
C13_SignIsDeterministic ==
    (sigpc = "signed" /\ sig.signs > 1) => sig.signature = sig.previous

C13_Witness ==
    /\ sigpc = "signed" /\ sig.signs = 2 /\ sig.verifies = 1
    /\ Len(sig.signature) = 64 /\ sig.signature = sig.previous

\* C5: the response signWithNonceK writes is the representative in [0, order) of
\* r - h * a modulo the order.
C5_ResponseIsReducedDifference ==
    sigpc = "signed"
    => LET response == SubSeq(sig.signature, 33, 64)
       IN RefLess(response, RefOrder) /\ response = RefResponse(RefTerms(sig))

\* the subtraction borrowed and the order was added back
C5_Witness ==
    /\ sigpc = "signed"
    /\ LET t == RefTerms(sig)
       IN RefLess(t.r, t.ha) /\ SubSeq(sig.signature, 33, 64) = RefResponse(t)

----------------------------------------------------------------------------
(* Properties of the fixed-base multiplication *)

\* C9: two runs of ecc_mul_fixed on two different scalars take the same branches and read
\* the same entries of FIXED_BASE_TABLE, in the same order.
C9_SameBranchesAndTableReads ==
    fxpc = "done" => fx.runs[1].trace = fx.runs[2].trace

----------------------------------------------------------------------------
(* Properties of the field functions *)

\* Reference arithmetic modulo p = 2^127 - 1 on numbers of sixteen little-endian bytes
RefP == BytesOf(<<ALLONES, MASK63>>)
RefFelm(a) == BytesOf(a)
\* x mod p for x below 2^128, which is below 3p
RefModP(x) ==
    LET y == IF RefLess(x, RefP) THEN x ELSE RefSub(x, RefP)
    IN IF RefLess(y, RefP) THEN y ELSE RefSub(y, RefP)
\* (a + b) mod p and (a - b) mod p for a, b up to p
RefAddP(a, b) == RefModP(RefAdd(a, b))
RefSubP(a, b) == RefModP(IF RefLess(a, b) THEN RefSub(RefAdd(a, RefP), b) ELSE RefSub(a, b))
RefExpected(f) ==
    IF f.op = "fpadd1271" THEN RefAddP(RefFelm(f.a), RefFelm(f.b))
    ELSE RefSubP(RefFelm(f.a), RefFelm(f.b))

\* C14: for a, b up to p, the result c of fpadd1271 and of fpsub1271 is at most p and
\* congruent to a + b (a - b) modulo p, and mod1271(c) is (a + b) mod p ((a - b) mod p),
\* below p.
C14_AddSubWithinTwoWords ==
    /\ fppc \in {"computed", "reduced"}
       => /\ ~RefLess(RefP, RefFelm(fp.c))
          /\ RefModP(RefFelm(fp.c)) = RefExpected(fp)
    /\ fppc = "reduced"
       => /\ RefFelm(fp.r) = RefExpected(fp)
          /\ RefLess(RefFelm(fp.r), RefP)

\* p + p: the sum has bit 127 set, the fold gives p and mod1271 gives 0
C14_Witness ==
    /\ fppc = "reduced" /\ fp.op = "fpadd1271"
    /\ RefFelm(fp.a) = RefP /\ RefFelm(fp.b) = RefP
    /\ RefFelm(fp.c) = RefP /\ IsZero(RefFelm(fp.r))

----------------------------------------------------------------------------
(* Properties of encode and decode *)

\* C10: decode of the bytes that encode made of a valid point with canonical coordinates
\* returns true and leaves exactly that point.
C10_RoundTrip ==
    (cdpc = "done" /\ cd.tamper = 0) => (cd.return /\ cd.D = cd.P)

\* the point with the coordinates of R, and whether it passes ecc_point_validate
AffineOf(R) == [x |-> R.x, y |-> R.y]
Validates(P) == ecc_point_validate(point_setup(P))
\* p - a for a field element a of two words
RefNeg(a) == WordsOf(RefSub(RefP, BytesOf(a)))

\* C11: decode validates one candidate, or two when the first fails, the second being the
\* first with the imaginary part of x negated; it returns true exactly when one of them
\* passes ecc_point_validate, and then P is the candidate that passed.
C11_ReturnsTrueIffACandidateValidates ==
    cdpc = "done"
    => LET n == Len(cd.tried)
           first == cd.tried[1]
           second == cd.tried[2]
       IN /\ n \in {1, 2}
          /\ n = 2 => /\ ~Validates(first.P)
                      /\ second.P.y = first.P.y
                      /\ second.P.x = <<first.P.x[1], RefNeg(first.P.x[2])>>
          /\ cd.return <=> Validates(cd.tried[n].P)
          /\ cd.return => /\ cd.D = cd.tried[n].P
                          /\ AffineOf(cd.tried[n].R) = cd.D
          /\ \A i \in 1..n : cd.tried[i].valid <=> Validates(AffineOf(cd.tried[i].R))
          /\ cd.return <=> \E i \in 1..n : Validates(AffineOf(cd.tried[i].R))

\* the first candidate failed and the second, with x1 negated, validated and is in P
C11_Witness ==
    /\ cdpc = "done" /\ Len(cd.tried) = 2 /\ cd.return
    /\ ~cd.tried[1].valid /\ cd.tried[2].valid
    /\ cd.D.x[2] # cd.tried[1].P.x[2]

\* neither candidate validated and decode returned false
C11_WitnessFalse ==
    cdpc = "done" /\ Len(cd.tried) = 2 /\ ~cd.return

----------------------------------------------------------------------------
(* Properties of HM25Plus *)

\* C15: Echo transfers the whole reward, Burn burns it, Bonus transfers floor(reward / 2)
\* and burns the rest, so that what was transferred and burned over all calls is what was
\* received.
C15_WholeRewardDisposed ==
    /\ hm.transferred + hm.burned = hm.received
    /\ hm.last.procedure = "Echo"
       => hm.last.transferred = hm.last.invocationReward /\ hm.last.burned = 0
    /\ hm.last.procedure = "Burn"
       => hm.last.burned = hm.last.invocationReward /\ hm.last.transferred = 0
    /\ hm.last.procedure = "Bonus"
       => /\ hm.last.transferred = hm.last.invocationReward \div 2
          /\ hm.last.burned = hm.last.invocationReward - (hm.last.invocationReward \div 2)

----------------------------------------------------------------------------
(* Properties of the two argument checks *)

\* both "--args" and "--params" occur among argv[1..argc-1]
BothOccur(argv) ==
    /\ \E i \in 2..Len(argv) : argv[i] = "--args"
    /\ \E i \in 2..Len(argv) : argv[i] = "--params"

----------------------------------------------------------------------------
(* Properties of the voting contract *)

\* C17: no two valid votes have the same proposalId and the same userId, and a castVote by
\* a voter who already has a valid vote on the proposal returns false and records nothing.
C17_OneVotePerVoterAndProposal ==
    /\ \A i, j \in 1..contractState.totalVotes :
          (/\ i # j
           /\ contractState.votes[i].isValid /\ contractState.votes[j].isValid
           /\ contractState.votes[i].proposalId = contractState.votes[j].proposalId)
          => contractState.votes[i].userId # contractState.votes[j].userId
    /\ (calls.last.op = "castVote" /\ calls.last.before) => ~calls.last.return
    /\ contractState.totalVotes = Cardinality(calls.voted)

\* a second castVote of a voter on the proposal was turned down, another voter's was taken
C17_Witness ==
    /\ calls.last.op = "castVote" /\ calls.last.before /\ ~calls.last.return
    /\ contractState.totalVotes = 1
    /\ isProposalActive(contractState, calls.last.proposalId)

\* the castVote calls on the proposal p that returned true, with a choice up to c
RECURSIVE AcceptedUpTo(_, _)
AcceptedUpTo(p, c) ==
    IF c < 0 THEN 0 ELSE calls.accepted[<<p, c>>] + AcceptedUpTo(p, c - 1)

\* C18: for every valid proposal the total of getVoteCount and of getProposalResults is the
\* number of castVote calls on it that returned true, and each of the three counts is the
\* number of accepted votes with that choice.
C18_CountsMatchAcceptedVotes ==
    \A p \in 1..contractState.totalProposals :
       LET results == getProposalResults(contractState, p)
       IN /\ getVoteCount(contractState, p) = AcceptedUpTo(p, MaxChoice)
          /\ results.return = AcceptedUpTo(p, MaxChoice)
          /\ results.yesCount = calls.accepted[<<p, VOTE_YES>>]
          /\ results.noCount = calls.accepted[<<p, VOTE_NO>>]
          /\ results.abstainCount = calls.accepted[<<p, VOTE_ABSTAIN>>]

\* C19: once closeProposal(p) has returned true, a step other than initializeContract
\* leaves p closed and inactive with the counts it had, and a castVote on p returns false.
C19_ClosedProposalStaysClosed ==
    [][\A p \in calls.closed :
          calls'.last.op # "initializeContract"
          => /\ contractState'.proposals[p].status = CLOSED
             /\ ~contractState'.proposals[p].isActive
             /\ ~isProposalActive(contractState', p)
             /\ contractState'.proposals[p].yesVotes = contractState.proposals[p].yesVotes
             /\ contractState'.proposals[p].noVotes = contractState.proposals[p].noVotes
             /\ contractState'.proposals[p].abstainVotes = contractState.proposals[p].abstainVotes
             /\ (calls'.last.op = "castVote" /\ calls'.last.proposalId = p) => ~calls'.last.return
      ]_vars

\* a registered voter who has not voted casts a vote on a proposal that was closed
C19_Witness ==
    /\ calls.last.op = "castVote" /\ calls.last.proposalId \in calls.closed
    /\ isVoterRegistered(contractState, calls.last.userId)
    /\ ~calls.last.before /\ ~calls.last.return
    /\ contractState.proposals[calls.last.proposalId].status = CLOSED

\* C20: registerVoter returns false for a userId it has accepted before, and no two
\* registered entries of voters hold the same stored userId.
C20_NoDuplicateRegistration ==
    /\ (calls.last.op = "registerVoter" /\ calls.last.before) => ~calls.last.return
    /\ \A i, j \in 1..contractState.totalRegisteredVoters :
          (i # j /\ contractState.voters[i].isRegistered /\ contractState.voters[j].isRegistered)
          => contractState.voters[i].userId # contractState.voters[j].userId

----------------------------------------------------------------------------
(* Properties of the failing calls of the voting contract *)

\* the call made last failed: createProposal returned 0, or another function false
FailedCall(last) ==
    \/ last.op = "createProposal" /\ last.return = 0
    \/ last.op \in {"registerVoter", "castVote", "closeProposal"} /\ ~last.return

\* C21: a step in which createProposal returns 0, or registerVoter, castVote or
\* closeProposal returns false, leaves contractState as it was.
C21_FailedCallChangesNothing ==
    [][FailedCall(calls'.last) => contractState' = contractState]_vars

\* createProposal has returned 0 on the full array, after a vote was taken
C21_Witness ==
    /\ calls.last.op = "createProposal" /\ calls.last.return = 0
    /\ contractState.totalProposals = MAX_PROPOSALS
    /\ contractState.totalVotes = 1 /\ contractState.totalRegisteredVoters = 2

----------------------------------------------------------------------------
(* Properties of SpecExec.                                                  *)

ExecutionOrder == <<"validate", "connect", "prepare", "sign", "broadcast", "wait">>
StepReturned(step) == \E i \in 1..Len(ex.steps) : ex.steps[i][1] = step
StepResult(step) == \E i \in 1..Len(ex.steps) : ex.steps[i][1] = step /\ ex.steps[i][2]

\* C22: executeRealQubicTransaction runs validate, connect, prepare, sign, broadcast and
\* wait-for-confirmation in this order, runs no step after one that reported failure (so
\* broadcast runs only after validation, preparation and signing succeeded), and returns
\* true only if all six steps succeeded.
C22_OrderedStopsAtFirstFailure ==
    ex # <<>> /\ "steps" \in DOMAIN ex =>
        /\ Len(ex.steps) <= Len(ExecutionOrder)
        /\ \A i \in 1..Len(ex.steps) : ex.steps[i][1] = ExecutionOrder[i]
        /\ \A i \in 1..Len(ex.steps) : i < Len(ex.steps) => ex.steps[i][2]
        /\ StepReturned("broadcast") =>
              StepResult("validate") /\ StepResult("prepare") /\ StepResult("sign")
        /\ "return" \in DOMAIN ex =>
              /\ ex.steps # <<>>
              /\ ~ex.steps[Len(ex.steps)][2] \/ Len(ex.steps) = Len(ExecutionOrder)
              /\ ex.return => \A i \in 1..Len(ExecutionOrder) : ex.steps[i] = <<ExecutionOrder[i], TRUE>>

C22_Witness ==
    /\ ex # <<>> /\ "return" \in DOMAIN ex
    /\ ex.return /\ Len(ex.steps) = 6

C22_WitnessStopped ==
    /\ ex # <<>> /\ "return" \in DOMAIN ex
    /\ ex.steps = <<<<"validate", FALSE>>>> /\ ~ex.return

DataPreparationFailed ==
    ex # <<>> /\ "data" \in DOMAIN ex /\ \E i \in 1..Len(ex.data) : ~ex.data[i][2]

\* C23: when prepareContractCallData or prepareContractDeployData returns false,
\* prepareTransaction returns false, nothing is signed or broadcast, and
\* executeRealQubicTransaction and executeRealContractDeployment return false.
C23_DataFailureFailsTransaction ==
    DataPreparationFailed =>
        /\ ~StepResult("prepare")
        /\ ~StepReturned("sign") /\ ~StepReturned("broadcast")
        /\ "tx" \in DOMAIN ex => ~ex.tx.signed
        /\ "return" \in DOMAIN ex => ~ex.return
        /\ "executeRealContractDeployment" \in DOMAIN ex => ~ex.executeRealContractDeployment

\* the deployment whose bytecode could not be read and that returned true
C23_DeployedWithoutBytecode ==
    /\ DataPreparationFailed
    /\ "executeRealContractDeployment" \in DOMAIN ex /\ ex.executeRealContractDeployment
    /\ ~ex.params.bytecodeFile.is_open /\ ex.tx.dataSize = 0 /\ ex.tx.signed

Waiting == ex # <<>> /\ "at" \in DOMAIN ex /\ ex.at = "wait"
PollsBefore(j) == {ex.polls[i] : i \in 1..(j - 1)}

WaitForConfirmationBounded ==
    ex # <<>> /\ "polls" \in DOMAIN ex =>
        /\ Len(ex.polls) <= (IF ex.params.timeoutSeconds > 0 THEN ex.params.timeoutSeconds ELSE 0)
        /\ StepReturned("wait") =>
              /\ StepResult("wait") <=>
                    \E j \in 1..Len(ex.polls) :
                        /\ ex.polls[j] = TX_STATUS_CONFIRMED
                        /\ PollsBefore(j) \cap {TX_STATUS_FAILED, TX_STATUS_NOT_FOUND} = {}
              /\ ex.params.timeoutSeconds <= 0 => ~StepResult("wait") /\ ex.polls = <<>>

\* C24: waitForConfirmation terminates, after at most timeoutSeconds status polls; it
\* returns true iff a poll returned TX_STATUS_CONFIRMED before any poll returned
\* TX_STATUS_FAILED or TX_STATUS_NOT_FOUND and within the budget; with timeoutSeconds <= 0
\* it returns false without polling.
C24_WaitTerminatesWithinBudget ==
    /\ []WaitForConfirmationBounded
    /\ Waiting ~> ~Waiting

C24_Witness ==
    /\ ex # <<>> /\ "polls" \in DOMAIN ex
    /\ StepResult("wait") /\ ex.params.timeoutSeconds = 3
    /\ ex.polls = <<TX_STATUS_PENDING, TX_STATUS_PENDING, TX_STATUS_CONFIRMED>>

C24_WitnessNoBudget ==
    /\ ex # <<>> /\ "polls" \in DOMAIN ex
    /\ StepReturned("wait") /\ ex.params.timeoutSeconds = 0 /\ ex.polls = <<>>

----------------------------------------------------------------------------
(* Properties of SpecRecode.                                                *)

\* the sum of digits[16 * k + i] * 2^i for the i from i0 to 15 with 16 * k + i <= 64
RECURSIVE DigitLimb(_, _, _)
DigitLimb(digits, k, i0) ==
    IF i0 > 15 \/ 16 * k + i0 > 64 THEN 0
    ELSE digits[16 * k + i0 + 1] * 2 ^ i0 + DigitLimb(digits, k, i0 + 1)

\* the sum of digits[i] * 2^i as five limbs of 16 bits, the first four in 0..65535 and
\* the fifth what is left over, with its sign
RECURSIVE DigitLimbs(_, _, _)
DigitLimbs(digits, k, carry) ==
    LET v == DigitLimb(digits, k, 0) + carry
    IN IF k = 4 THEN <<v>>
       ELSE <<v % 65536>> \o DigitLimbs(digits, k + 1, (v - (v % 65536)) \div 65536)

\* a 64-bit scalar as the same five limbs
ScalarLimbs(scalar) == [k \in 1..5 |-> IF k = 5 THEN 0 ELSE scalar[2 * k - 1] + 256 * scalar[2 * k]]

Recoded == rc # <<>> /\ rc.call = "wNAF_recode" /\ "digits" \in DOMAIN rc

\* C25: for a 64-bit scalar and w in {4, 8} the 65 digits that wNAF_recode writes sum,
\* as digits[i] * 2^i, to the scalar; every digit is 0 or odd with absolute value at
\* most 2^(w-1) - 1; two nonzero digits are at least w positions apart.
C25_SignedDigitRepresentation ==
    Recoded =>
        /\ Len(rc.digits) = 65 /\ ~rc.overrun
        /\ DigitLimbs(rc.digits, 0, 0) = ScalarLimbs(rc.scalar)
        /\ \A i \in 1..65 :
              LET d == rc.digits[i]
              IN d = 0 \/ (d % 2 = 1 /\ d <= 2 ^ (rc.w - 1) - 1 /\ -d <= 2 ^ (rc.w - 1) - 1)
        /\ \A i, j \in 1..65 : i < j /\ rc.digits[i] # 0 /\ rc.digits[j] # 0 => j - i >= rc.w

\* 2^64 - 1 with window 8: a negative digit first and a digit at position 64
C25_Witness ==
    /\ Recoded /\ rc.scalar = ALLONES /\ rc.w = 8
    /\ rc.digits[1] = -1 /\ rc.digits[65] = 1

Decomposed == rc # <<>> /\ rc.call = "decompose" /\ "scalars" \in DOMAIN rc
LatticeVector4 == <<B41, B42, B43, B44>>
Uncorrected(k) == Call("decompose_scalars", <<k>>)

\* C26: for a 256-bit scalar k the first scalar that decompose returns is odd, and
\* decompose returns the scalars it computed either as they are or with
\* (B41, B42, B43, B44) subtracted once, modulo 2^64 in each.
C26_FirstScalarOdd ==
    Decomposed =>
        /\ rc.scalars[1][1] % 2 = 1
        /\ \/ rc.scalars = Uncorrected(rc.k)
           \/ rc.scalars = [j \in 1..4 |-> Sub64(Uncorrected(rc.k)[j], LatticeVector4[j])]

\* a scalar for which the subtraction is made
C26_Witness ==
    /\ Decomposed
    /\ Uncorrected(rc.k)[1][1] % 2 = 0
    /\ rc.scalars[1] = Sub64(Uncorrected(rc.k)[1], B41)

C26_WitnessOdd ==
    /\ Decomposed
    /\ Uncorrected(rc.k)[1][1] % 2 = 1 /\ rc.scalars = Uncorrected(rc.k)
====
